---- MODULE Spec2Model ----
(***************************************************************************)
(* Model of the floating-point exercises of the repository: the converter *)
(* FloatingPointNumber.exactDecimal (src/unnamed/part_000) and the three   *)
(* midpoint-rule estimators float_pi, double_pi and arbitrary_precision_pi.*)
(*                                                                         *)
(* java.math.BigDecimal values are records [neg, mag, scale] whose         *)
(* magnitude is an unbounded natural number kept as a sequence of limbs in *)
(* base 1000, least significant limb first, so that no operation is        *)
(* limited by the width of the model checker's integers.                   *)
(***************************************************************************)
EXTENDS Integers, Sequences, FiniteSets, TLC

(***************************************************************************)
(* java.math.BigInteger: a natural number is a sequence of limbs in base   *)
(* 1000 (three decimal digits per limb), least significant limb first,     *)
(* with no most-significant zero limb; zero is the empty sequence.         *)
(***************************************************************************)
Max(a, b) == IF a >= b THEN a ELSE b

Min(a, b) == IF a <= b THEN a ELSE b

Sub(a, lo, hi) == IF hi < lo THEN <<>> ELSE SubSeq(a, lo, hi)

Dig(a, i) == IF i >= 1 /\ i <= Len(a) THEN a[i] ELSE 0

RECURSIVE TrimLen(_, _)
TrimLen(a, n) == IF n = 0 THEN 0 ELSE IF a[n] # 0 THEN n ELSE TrimLen(a, n - 1)

Trim(a) == Sub(a, 1, TrimLen(a, Len(a)))

RECURSIVE Carry(_, _, _, _)
Carry(c, i, carry, acc) ==
    IF i > Len(c) \/ Len(acc) < 0
    THEN IF carry = 0 THEN acc ELSE Carry(c, i, carry \div 1000, Append(acc, carry % 1000))
    ELSE LET s == c[i] + carry IN Carry(c, i + 1, s \div 1000, Append(acc, s % 1000))

FromInt(n) == IF n = 0 THEN <<>> ELSE Carry(<<n>>, 1, 0, <<>>)

AddN(a, b) == Carry([i \in 1..Max(Len(a), Len(b)) |-> Dig(a, i) + Dig(b, i)], 1, 0, <<>>)

RECURSIVE Borrow(_, _, _, _, _)
Borrow(a, b, i, br, acc) ==
    IF i > Len(a) \/ Len(acc) < 0 THEN Trim(acc)
    ELSE LET d == a[i] - Dig(b, i) - br
         IN  IF d < 0 THEN Borrow(a, b, i + 1, 1, Append(acc, d + 1000))
                      ELSE Borrow(a, b, i + 1, 0, Append(acc, d))

SubN(a, b) == Borrow(a, b, 1, 0, <<>>)

RECURSIVE CmpFrom(_, _, _)
CmpFrom(a, b, i) ==
    IF i = 0 THEN 0
    ELSE IF a[i] > b[i] THEN 1 ELSE IF a[i] < b[i] THEN -1 ELSE CmpFrom(a, b, i - 1)

CmpN(a, b) ==
    IF Len(a) > Len(b) THEN 1 ELSE IF Len(a) < Len(b) THEN -1 ELSE CmpFrom(a, b, Len(a))

MulSmall(a, m) == IF m = 0 THEN <<>> ELSE Carry([i \in 1..Len(a) |-> a[i] * m], 1, 0, <<>>)

RECURSIVE ConvSum(_, _, _, _, _)
ConvSum(a, b, k, i, hi) ==
    IF i > hi THEN 0 ELSE a[i] * b[k + 1 - i] + ConvSum(a, b, k, i + 1, hi)

MulN(a, b) ==
    IF a = <<>> \/ b = <<>> THEN <<>>
    ELSE Carry([k \in 1..(Len(a) + Len(b) - 1) |->
                   ConvSum(a, b, k, Max(1, k + 1 - Len(b)), Min(k, Len(a)))], 1, 0, <<>>)

SquareN(a) == MulN(a, a)

RECURSIVE PowN(_, _)
PowN(a, n) ==
    IF n = 0 THEN <<1>>
    ELSE IF n % 2 = 1 THEN MulN(a, PowN(a, n - 1))
    ELSE SquareN(PowN(a, n \div 2))

\* The largest limb d in lo..hi with b * d <= r (b * lo <= r is given).
RECURSIVE QuotLimb(_, _, _, _)
QuotLimb(r, b, lo, hi) ==
    IF lo = hi THEN lo
    ELSE LET mid == (lo + hi + 1) \div 2
         IN  IF CmpN(MulSmall(b, mid), r) <= 0 THEN QuotLimb(r, b, mid, hi)
                                               ELSE QuotLimb(r, b, lo, mid - 1)

\* One limb of the long division: the quotient limb d of the running remainder
\* r1 and the remainder left.
QuotOf(r1, b) == IF CmpN(r1, b) < 0 THEN 0 ELSE QuotLimb(r1, b, 1, 999)

RemOf(r1, b, d) == IF d = 0 THEN r1 ELSE SubN(r1, MulSmall(b, d))

RECURSIVE DivFrom(_, _, _, _, _)
DivStep(a, b, i, r1, d, q) == DivFrom(a, b, i, RemOf(r1, b, d), <<d>> \o q)

DivLimb(a, b, i, r1, q) == DivStep(a, b, i, r1, QuotOf(r1, b), q)

\* the guard only makes the step's values be computed before the next step
DivFrom(a, b, i, r, q) ==
    IF i = 0 \/ Len(r) < 0 \/ Len(q) < 0 THEN [q |-> Trim(q), r |-> r]
    ELSE DivLimb(a, b, i - 1, Trim(<<a[i]>> \o r), q)

\* BigInteger.divideAndRemainder for b # 0.
DivMod(a, b) ==
    IF Len(a) < Len(b) THEN [q |-> <<>>, r |-> a]
    ELSE LET k == Len(b) - 1
         IN  DivFrom(a, b, Len(a) - k, Trim(Sub(a, Len(a) - k + 1, Len(a))), <<>>)

(***************************************************************************)
(* Decimal digits of a natural number: positions count from 0 at the       *)
(* least significant digit.                                                 *)
(***************************************************************************)
Ten(j) == IF j = 0 THEN 1 ELSE IF j = 1 THEN 10 ELSE 100

NumDigits(a) ==
    IF a = <<>> THEN 0
    ELSE LET t == a[Len(a)]
         IN  3 * (Len(a) - 1) + (IF t >= 100 THEN 3 ELSE IF t >= 10 THEN 2 ELSE 1)

DigitAt(a, pos) == (Dig(a, (pos \div 3) + 1) \div Ten(pos % 3)) % 10

\* Some digit below position pos is not zero.
LowNonZero(a, pos) ==
    \/ \E i \in 1..Min(pos \div 3, Len(a)) : a[i] # 0
    \/ Dig(a, (pos \div 3) + 1) % Ten(pos % 3) # 0

\* a * 10^k
Shift10(a, k) ==
    IF a = <<>> THEN <<>> ELSE [i \in 1..(k \div 3) |-> 0] \o MulSmall(a, Ten(k % 3))

\* floor(a / 10^k)
Drop10(a, k) ==
    LET m == k \div 3
        j == k % 3
        h == Sub(a, m + 1, Len(a))
    IN  IF j = 0 THEN h
        ELSE Trim([i \in 1..Len(h) |-> (h[i] \div Ten(j)) + (Dig(h, i + 1) % Ten(j)) * Ten(3 - j)])

(***************************************************************************)
(* java.math.BigDecimal: [neg, mag, scale] is (-1)^neg * mag * 10^(-scale). *)
(* A MathContext is [precision, roundingMode].                              *)
(***************************************************************************)
BD(neg, mag, scale) == [neg |-> neg /\ mag # <<>>, mag |-> mag, scale |-> scale]

BdZero == BD(FALSE, <<>>, 0)

BdOne == BD(FALSE, <<1>>, 0)

\* BigDecimal.valueOf(long)
BdValueOf(n) == BD(n < 0, FromInt(IF n < 0 THEN -n ELSE n), 0)

\* new BigDecimal("0.5")
BdHalf == BD(FALSE, <<5>>, 1)

MathContext(precision, roundingMode) == [precision |-> precision, roundingMode |-> roundingMode]

BdPrecision(x) == IF x.mag = <<>> THEN 1 ELSE NumDigits(x.mag)

BdMultiply(x, y) == BD(x.neg # y.neg, MulN(x.mag, y.mag), x.scale + y.scale)

\* the sum of (-1)^xneg * a and (-1)^yneg * b at scale s
AddSigned(xneg, a, yneg, b, s) ==
    IF xneg = yneg THEN BD(xneg, AddN(a, b), s)
    ELSE IF CmpN(a, b) >= 0 THEN BD(xneg, SubN(a, b), s)
    ELSE BD(yneg, SubN(b, a), s)

AddAtScale(x, y, s) ==
    AddSigned(x.neg, Shift10(x.mag, s - x.scale), y.neg, Shift10(y.mag, s - y.scale), s)

BdAdd(x, y) == AddAtScale(x, y, Max(x.scale, y.scale))

\* BigDecimal.pow(int) for 0 <= n: the exact power, scale * n.
BdPow(x, n) == BD(x.neg /\ n % 2 = 1, PowN(x.mag, n), x.scale * n)

\* mag with its `drop' low digits removed (drop >= 1), rounded in the given mode;
\* sticky tells that digits beyond mag were not zero.
RoundsUp(q, d, rest, mode) ==
    IF mode = "HALF_UP" THEN d >= 5
    ELSE d > 5 \/ (d = 5 /\ (rest \/ Dig(q, 1) % 2 = 1))

RoundQuot(q, d, rest, mode) == IF RoundsUp(q, d, rest, mode) THEN AddN(q, <<1>>) ELSE q

RoundMag(mag, sticky, drop, mode) ==
    RoundQuot(Drop10(mag, drop), DigitAt(mag, drop - 1),
              sticky \/ LowNonZero(mag, drop - 1), mode)

\* the rounded magnitude m at scale sc, one digit dropped when the rounding
\* carried into a digit more than the precision p
Renormalized(neg, m, sc, p) ==
    IF NumDigits(m) > p THEN BD(neg, Drop10(m, 1), sc - 1) ELSE BD(neg, m, sc)

RoundDropping(x, drop, mc) ==
    IF mc.precision = 0 \/ drop <= 0 THEN x
    ELSE Renormalized(x.neg, RoundMag(x.mag, FALSE, drop, mc.roundingMode),
                      x.scale - drop, mc.precision)

\* BigDecimal.doRound: x rounded to mc.precision significant digits.
BdRound(x, mc) == RoundDropping(x, BdPrecision(x) - mc.precision, mc)

\* The number of low zero digits of mag that may be removed, at most `most'.
TrailingZeros(mag, most) ==
    LET T == {t \in 0..Max(0, Min(most, NumDigits(mag) - 1)) : ~LowNonZero(mag, t)}
    IN  CHOOSE t \in T : \A u \in T : u <= t

\* BigDecimal.stripZerosToMatchScale
StripZerosToMatchScale(x, preferredScale) ==
    LET t == TrailingZeros(x.mag, x.scale - preferredScale)
    IN  IF x.mag = <<>> THEN BD(FALSE, <<>>, preferredScale)
        ELSE BD(x.neg, Drop10(x.mag, t), x.scale - t)

\* The quotient x / y (y # 0) to p significant digits in the given mode:
\* [val, inexact].  The integer quotient is taken with one or two digits more
\* than p and rounded once, the remainder being the sticky part.
QuotRounded(x, y, p, mode, k, dm, drop) ==
    [val |-> StripZerosToMatchScale(
                 Renormalized(x.neg # y.neg, RoundMag(dm.q, dm.r # <<>>, drop, mode),
                              x.scale - y.scale + k - drop, p),
                 x.scale - y.scale),
     inexact |-> dm.r # <<>> \/ LowNonZero(dm.q, drop)]

QuotOfDigits(x, y, p, mode, k, dm) == QuotRounded(x, y, p, mode, k, dm, NumDigits(dm.q) - p)

QuotShifted(x, y, p, mode, k) ==
    QuotOfDigits(x, y, p, mode, k,
                 DivMod(IF k >= 0 THEN Shift10(x.mag, k) ELSE x.mag,
                        IF k >= 0 THEN y.mag ELSE Shift10(y.mag, -k)))

DivideToPrecision(x, y, p, mode) ==
    IF x.mag = <<>> THEN [val |-> BD(FALSE, <<>>, x.scale - y.scale), inexact |-> FALSE]
    ELSE QuotShifted(x, y, p, mode, p + 1 + NumDigits(y.mag) - NumDigits(x.mag))

\* BigDecimal.divide(BigDecimal): the quotient r if it is exact
ExactOrThrow(r) ==
    IF r.inexact THEN [val |-> BdZero, exc |-> "ArithmeticException"]
    ELSE [val |-> r.val, exc |-> "none"]

\* BigDecimal.divide(BigDecimal, MathContext) for a divisor that is not zero:
\* [val, exc].  Precision 0 is the exact quotient (BigDecimal.divide(BigDecimal)),
\* which exists only when the decimal expansion terminates.
BdDivide(x, y, mc) ==
    IF mc.precision = 0
    THEN ExactOrThrow(DivideToPrecision(x, y,
                          BdPrecision(x) + ((10 * BdPrecision(y) + 2) \div 3), "UNNECESSARY"))
    ELSE [val |-> DivideToPrecision(x, y, mc.precision, mc.roundingMode).val, exc |-> "none"]

\* longDigitLength: the number of decimal digits of n >= 0
LongDigitLength(n) == IF n = 0 THEN 1 ELSE NumDigits(FromInt(n))

\* The loop of BigDecimal.pow(int, MathContext): bit b of mag, from bit 30 down to
\* bit 0; acc is multiplied by lhs on a set bit and squared between bits once
\* a set bit has been seen, each product rounded to the working precision.
RECURSIVE PowLoop(_, _, _, _, _, _)
BitOf(mag, b) == (mag \div (2 ^ b)) % 2 = 1

BdSquare(x, workmc) == BdRound(BdMultiply(x, x), workmc)

PowBit(lhs, mag, b, seen, acc1, workmc) ==
    IF b = 0 \/ Len(acc1.mag) < 0 THEN acc1
    ELSE PowLoop(lhs, mag, b - 1, seen, IF seen THEN BdSquare(acc1, workmc) ELSE acc1, workmc)

PowLoop(lhs, mag, b, seenbit, acc, workmc) ==
    PowBit(lhs, mag, b, seenbit \/ BitOf(mag, b),
           IF BitOf(mag, b) THEN BdRound(BdMultiply(acc, lhs), workmc) ELSE acc, workmc)

\* the result of the loop: its reciprocal for a negative exponent, and the final
\* rounding to the precision asked for
PowResult(acc, n, mc, workmc) ==
    IF n < 0 THEN [val |-> BdRound(BdDivide(BdOne, acc, workmc).val, mc), exc |-> "none"]
    ELSE [val |-> BdRound(acc, mc), exc |-> "none"]

PowWith(x, n, mag, elen, mc, workmc) ==
    IF n = 0 THEN [val |-> BdOne, exc |-> "none"]
    ELSE IF elen > mc.precision THEN [val |-> BdZero, exc |-> "ArithmeticException"]
    ELSE PowResult(PowLoop(x, mag, 30, FALSE, BdOne, workmc), n, mc, workmc)

PowOfMagnitude(x, n, mag, elen, mc) ==
    PowWith(x, n, mag, elen, mc, MathContext(mc.precision + elen + 1, mc.roundingMode))

\* BigDecimal.pow(int, MathContext) for mc.precision > 0 and |n| <= 999999999:
\* [val, exc].
BdPowMc(x, n, mc) ==
    PowOfMagnitude(x, n, IF n < 0 THEN -n ELSE n, LongDigitLength(IF n < 0 THEN -n ELSE n), mc)

\* BigDecimal.compareTo(...) = 0: the same number, whatever the scales.
BdSame(x, y) ==
    LET s == Max(x.scale, y.scale)
    IN  x.neg = y.neg /\ Shift10(x.mag, s - x.scale) = Shift10(y.mag, s - y.scale)

(***************************************************************************)
(* Java float and double: [cls, neg, mant, exp] with cls "fin", "inf" or    *)
(* "nan"; a finite value is (-1)^neg * mant * 2^exp, mant a natural number  *)
(* below 2^p, p = 24 for float and 53 for double.  Every operation is the   *)
(* exact result rounded to nearest, ties to even (IEEE 754, JLS 15.4).  The *)
(* exponent range is not limited: the estimators' values for the step       *)
(* counts of the model stay far inside it.                                  *)
(***************************************************************************)
FloatBits == 24

DoubleBits == 53

Fin(neg, mant, exp) == [cls |-> "fin", neg |-> neg, mant |-> mant, exp |-> exp]

Inf(neg) == [cls |-> "inf", neg |-> neg, mant |-> <<>>, exp |-> 0]

NaN == [cls |-> "nan", neg |-> FALSE, mant |-> <<>>, exp |-> 0]

\* floor(log2(a)) for a natural number a > 0
FloorLog2(a) ==
    LET lo == ((NumDigits(a) - 1) * 3321928) \div 1000000
    IN  CHOOSE t \in lo..(lo + 4) :
            /\ CmpN(PowN(<<2>>, t), a) <= 0
            /\ CmpN(a, PowN(<<2>>, t + 1)) < 0

\* n / d < 2^l0 for natural numbers n, d > 0
BelowPow2(n, d, l0) ==
    IF l0 >= 0 THEN CmpN(n, MulN(d, PowN(<<2>>, l0))) < 0
    ELSE CmpN(MulN(n, PowN(<<2>>, -l0)), d) < 0

Log2From(n, d, l0) == IF BelowPow2(n, d, l0) THEN l0 - 1 ELSE l0

\* floor(log2(n / d))
FloorLog2Quot(n, d) == Log2From(n, d, FloorLog2(n) - FloorLog2(d))

\* the significand q, incremented when the remainder r of the division by dd is
\* above one half, or is one half and q is odd
BinMant(neg, q, up, e, s, p) ==
    IF up /\ AddN(q, <<1>>) = PowN(<<2>>, p) THEN Fin(neg, PowN(<<2>>, p - 1), e - s + 1)
    ELSE Fin(neg, IF up THEN AddN(q, <<1>>) ELSE q, e - s)

BinHalf(neg, q, c, e, s, p) == BinMant(neg, q, c > 0 \/ (c = 0 /\ Dig(q, 1) % 2 = 1), e, s, p)

BinRounded(neg, dm, dd, e, s, p) == BinHalf(neg, dm.q, CmpN(MulSmall(dm.r, 2), dd), e, s, p)

BinDivided(neg, nn, dd, e, s, p) == BinRounded(neg, DivMod(nn, dd), dd, e, s, p)

\* n / d taken with p significant bits: n * 2^s / d, floor(log2(n / d)) = p - 1 - s
BinScaled(neg, n, d, e, p, s) ==
    BinDivided(neg, IF s >= 0 THEN MulN(n, PowN(<<2>>, s)) ELSE n,
                    IF s >= 0 THEN d ELSE MulN(d, PowN(<<2>>, -s)), e, s, p)

\* (-1)^neg * (n / d) * 2^e rounded to p significant bits, ties to even; n, d > 0.
RoundBin(neg, n, d, e, p) == BinScaled(neg, n, d, e, p, p - 1 - FloorLog2Quot(n, d))

\* the same for a natural number n
RoundNat(neg, n, e, p) == RoundBin(neg, n, <<1>>, e, p)

\* int to float or double (JLS 5.1.2)
IntToFl(n, p) ==
    IF n = 0 THEN Fin(FALSE, <<>>, 0)
    ELSE RoundBin(n < 0, FromInt(IF n < 0 THEN -n ELSE n), <<1>>, 0, p)

\* the literals 0.5, 1.0 and 4.0
FlHalf == Fin(FALSE, <<1>>, -1)

FlOne == Fin(FALSE, <<1>>, 0)

FlFour == Fin(FALSE, <<4>>, 0)

FlZero == Fin(FALSE, <<>>, 0)

FlIsZero(a) == a.cls = "fin" /\ a.mant = <<>>

\* a / b (JLS 15.17.2)
FlDiv(a, b, p) ==
    IF a.cls = "nan" \/ b.cls = "nan" THEN NaN
    ELSE IF a.cls = "inf" THEN (IF b.cls = "inf" THEN NaN ELSE Inf(a.neg # b.neg))
    ELSE IF b.cls = "inf" THEN Fin(a.neg # b.neg, <<>>, 0)
    ELSE IF FlIsZero(b) THEN (IF FlIsZero(a) THEN NaN ELSE Inf(a.neg # b.neg))
    ELSE IF FlIsZero(a) THEN Fin(a.neg # b.neg, <<>>, 0)
    ELSE RoundBin(a.neg # b.neg, a.mant, b.mant, a.exp - b.exp, p)

\* a * b (JLS 15.17.1)
FlMul(a, b, p) ==
    IF a.cls = "nan" \/ b.cls = "nan" THEN NaN
    ELSE IF a.cls = "inf" \/ b.cls = "inf"
         THEN (IF FlIsZero(a) \/ FlIsZero(b) THEN NaN ELSE Inf(a.neg # b.neg))
    ELSE IF FlIsZero(a) \/ FlIsZero(b) THEN Fin(a.neg # b.neg, <<>>, 0)
    ELSE RoundBin(a.neg # b.neg, MulN(a.mant, b.mant), <<1>>, a.exp + b.exp, p)

\* the narrowing conversion double to float (JLS 5.1.3) and the widening one
FlConvert(a, p) ==
    IF a.cls # "fin" \/ a.mant = <<>> THEN a ELSE RoundNat(a.neg, a.mant, a.exp, p)

\* the exact sum x (a decimal record of scale 0 used as a signed natural number)
\* times 2^e, rounded; an exact zero sum of opposite signs is +0
FlOfSigned(x, e, p) == IF x.mag = <<>> THEN Fin(FALSE, <<>>, 0) ELSE RoundNat(x.neg, x.mag, e, p)

\* finite a and b that are not zero, e the smaller exponent
FlAddAt(a, b, e, p) ==
    FlOfSigned(AddSigned(a.neg, MulN(a.mant, PowN(<<2>>, a.exp - e)),
                         b.neg, MulN(b.mant, PowN(<<2>>, b.exp - e)), 0), e, p)

\* a + b (JLS 15.18.2)
FlAdd(a, b, p) ==
    IF a.cls = "nan" \/ b.cls = "nan" THEN NaN
    ELSE IF a.cls = "inf" THEN (IF b.cls = "inf" /\ a.neg # b.neg THEN NaN ELSE a)
    ELSE IF b.cls = "inf" THEN b
    ELSE IF FlIsZero(a) /\ FlIsZero(b) THEN Fin(a.neg /\ b.neg, <<>>, 0)
    ELSE IF FlIsZero(a) THEN FlConvert(b, p)
    ELSE IF FlIsZero(b) THEN FlConvert(a, p)
    ELSE FlAddAt(a, b, Min(a.exp, b.exp), p)

\* the same number, whatever the exponents (== of two floats; NaN is not itself)
FlSame(a, b) ==
    /\ a.cls = b.cls /\ a.cls # "nan"
    /\ a.cls = "fin" =>
          \/ a.mant = <<>> /\ b.mant = <<>>
          \/ /\ a.mant # <<>> /\ b.mant # <<>> /\ a.neg = b.neg
             /\ LET e == Min(a.exp, b.exp)
                IN  MulN(a.mant, PowN(<<2>>, a.exp - e)) = MulN(b.mant, PowN(<<2>>, b.exp - e))
    /\ a.cls = "inf" => a.neg = b.neg

(***************************************************************************)
(* Strings are sequences of one-character strings.                         *)
(***************************************************************************)
Rep(c, n) == [k \in 1..n |-> c]

DecimalDigits == <<"0", "1", "2", "3", "4", "5", "6", "7", "8", "9">>

IsDigit(c, radix) == \E v \in 1..radix : DecimalDigits[v] = c

\* Character.digit(c, radix) for a digit c of the radix
DigitValue(c) == (CHOOSE v \in 1..10 : DecimalDigits[v] = c) - 1

RECURSIVE DigitsValue(_, _, _)
DigitsValue(str, radix, k) ==
    IF k = 0 THEN 0 ELSE DigitValue(str[k]) + radix * DigitsValue(str, radix, k - 1)

\* Long.parseLong(str) and Integer.valueOf(str, radix) for the short strings of
\* the model: an optional sign, then at least one digit of the radix, and
\* nothing else; [ok, val], ok false standing for NumberFormatException.
ParseNumber(str, radix) ==
    LET signed == str # <<>> /\ str[1] \in {"+", "-"}
        body   == IF signed THEN Sub(str, 2, Len(str)) ELSE str
        v      == DigitsValue(body, radix, Len(body))
    IN  IF body = <<>> \/ \E k \in 1..Len(body) : ~IsDigit(body[k], radix)
        THEN [ok |-> FALSE, val |-> 0]
        ELSE [ok |-> TRUE, val |-> IF signed /\ str[1] = "-" THEN -v ELSE v]

(***************************************************************************)
(* The program state: the position in the executing function, the function *)
(* called last, its parameters and locals, the outcome of the call, and    *)
(* the static field.  A call discards the frame of the call before it.     *)
(***************************************************************************)
VARIABLES
    pc, fn, ret,
    singleFloatingPointBinary, mantissa, fraction, i, exponent, sign, result,
    numSteps, precision, stepSize, sum,
    SINGLE_FP_EXPONENT_BIAS,
    first,
    stdout

(***************************************************************************)
(* The outcome of a call: a returned value or a thrown exception.          *)
(***************************************************************************)
Undef == [undef |-> TRUE]

NoRet == [kind |-> "none", val |-> Undef, exc |-> "none"]

Value(v) == [kind |-> "value", val |-> v, exc |-> "none"]

Thrown(e) == [kind |-> "exception", val |-> Undef, exc |-> e]

NoCall ==
    [fn |-> "none", str |-> <<>>, numSteps |-> 0, precision |-> 0, ret |-> NoRet, other |-> FALSE]

(***************************************************************************)
(* float_pi, double_pi and arbitrary_precision_pi: the step size, the term *)
(* of iteration i added to the running sum, and the value returned.        *)
(* StepSizeOf and TermOf give [val, exc].                                  *)
(***************************************************************************)
Ok(v) == [val |-> v, exc |-> "none"]

\* float stepSize = 1.0f/numSteps;  double stepSize = 1.0d/numSteps;
\* BigDecimal stepSize = BigDecimal.ONE.divide(BigDecimal.valueOf(numSteps), mc);
StepSizeOf(f, n, mc) ==
    IF f = "float_pi" THEN Ok(FlDiv(FlOne, IntToFl(n, FloatBits), FloatBits))
    ELSE IF f = "double_pi" THEN Ok(FlDiv(FlOne, IntToFl(n, DoubleBits), DoubleBits))
    ELSE IF n = 0 THEN [val |-> Undef, exc |-> "ArithmeticException"]
    ELSE BdDivide(BdOne, BdValueOf(n), mc)

\* a sum that starts from a value left behind once other calls have been made
SumCarried(f) ==
    IF first.other THEN (IF f = "arbitrary_precision_pi" THEN BdOne ELSE FlOne)
    ELSE IF f = "arbitrary_precision_pi" THEN BdZero ELSE FlZero

\* float sum = 0f;  double sum = 0d;  BigDecimal sum = BigDecimal.ZERO;
SumZero(f) == IF f = "arbitrary_precision_pi" THEN BdZero ELSE FlZero

\* 4.0f/(1.0f+pow(x,2)) with float x = (i+0.5f)*stepSize: pow is Math.pow on
\* doubles, so the sum and the quotient are double operations;
\* 4.0d/(1.0d+pow(x,2)) with double x = (i+0.5d)*stepSize;
\* four.divide(BigDecimal.ONE.add(x.pow(2)), mc) with
\* x = (BigDecimal.valueOf(i).add(half)).multiply(stepSize).
\* Math.pow(x, 2) is taken as the correctly rounded square of x.
MidPoint(f, k, step) ==
    IF f = "float_pi" THEN FlMul(FlAdd(IntToFl(k, FloatBits), FlHalf, FloatBits), step, FloatBits)
    ELSE IF f = "double_pi"
    THEN FlMul(FlAdd(IntToFl(k, DoubleBits), FlHalf, DoubleBits), step, DoubleBits)
    ELSE BdMultiply(BdAdd(BdValueOf(k), BdHalf), step)

FlSquare(x, p) == FlMul(x, x, p)

TermAt(f, x, mc) ==
    IF f = "arbitrary_precision_pi"
    THEN BdDivide(BdValueOf(4), BdAdd(BdOne, BdPow(x, 2)), mc)
    ELSE Ok(FlDiv(FlFour, FlAdd(FlOne, FlSquare(x, DoubleBits), DoubleBits), DoubleBits))

TermOf(f, k, step, mc) == TermAt(f, MidPoint(f, k, step), mc)

\* sum += term (for float_pi the double sum narrowed to float);  sum = sum.add(term)
AddTerm(f, s, t) ==
    IF f = "float_pi" THEN FlConvert(FlAdd(s, t, DoubleBits), FloatBits)
    ELSE IF f = "double_pi" THEN FlAdd(s, t, DoubleBits)
    ELSE BdAdd(s, t)

\* a product that is rounded to the precision of the call
ResultRounded(f, s, step) ==
    IF f = "float_pi" THEN FlMul(s, step, FloatBits)
    ELSE IF f = "double_pi" THEN FlMul(s, step, DoubleBits)
    ELSE BdRound(BdMultiply(s, step), MathContext(precision, "HALF_UP"))

\* return sum*stepSize;  return sum.multiply(stepSize);
ResultOf(f, s, step) ==
    IF f = "float_pi" THEN FlMul(s, step, FloatBits)
    ELSE IF f = "double_pi" THEN FlMul(s, step, DoubleBits)
    ELSE BdMultiply(s, step)

(***************************************************************************)
(* The inputs of the model.                                                *)
(***************************************************************************)
MaxSteps == 4

MaxPrecision == 3

FracPrefix == 2

Estimators == {"float_pi", "double_pi", "arbitrary_precision_pi"}

StepCounts == (-1)..MaxSteps

Precisions == (-1)..MaxPrecision

RECURSIVE ToBits(_, _)
ToBits(v, n) == IF n = 0 THEN <<>> ELSE Append(ToBits(v \div 2, n - 1), DecimalDigits[(v % 2) + 1])

Bit == {"0", "1"}

\* exponent fields: the bias and its neighbour, the ends of the normalized
\* range, the two special fields, and the two fields around the last power of
\* two whose decimal expansion has 50 digits
ExponentFields == {ToBits(v, 8) : v \in {0, 1, 55, 56, 127, 128, 254, 255}}

\* fractions of 23 bits: any first FracPrefix bits, any last bit; and all ones
FractionFields ==
    {p \o Rep("0", 22 - FracPrefix) \o <<l>> : p \in [1..FracPrefix -> Bit], l \in Bit}
        \cup {Rep("1", 23)}

BitStrings == {<<c>> \o e \o f : c \in Bit, e \in ExponentFields, f \in FractionFields}

\* strings that are not 32 characters of '0' and '1'
OtherStrings ==
    { <<"0", "1">>,
      <<"0">> \o ToBits(127, 8),
      <<"0">> \o ToBits(127, 8) \o Rep("0", 22),
      <<"0">> \o ToBits(127, 8) \o Rep("0", 24),
      <<"0">> \o ToBits(127, 8) \o Rep("0", 22) \o <<"1", "1">>,
      <<"x">> \o ToBits(127, 8) \o Rep("0", 23),
      <<"0">> \o ToBits(63, 7) \o <<"x">> \o Rep("0", 23),
      <<"0", "-">> \o ToBits(127, 7) \o Rep("0", 23),
      <<"0">> \o ToBits(127, 8) \o <<"2">> \o Rep("0", 22),
      <<"0">> \o ToBits(127, 8) \o Rep("0", 11) \o <<"x">> \o Rep("0", 11),
      <<"0">> \o ToBits(127, 8) \o Rep("0", 22) \o <<"-">> }

Strings == BitStrings \cup OtherStrings

\* the lines of standard output that are followed
MaxOutput == 2

\* the Java class's variables
javaVars == <<pc, fn, ret, singleFloatingPointBinary, mantissa, fraction, i, exponent, sign,
              result, numSteps, precision, stepSize, sum, SINGLE_FP_EXPONENT_BIAS, first,
              stdout>>

\* vectorization/main.c, run: the two files and the read positions in them, the
\* mode, the buffers, the result array (`result' in the source) and the locals
VARIABLES
    vpc,
    file1,
    file2,
    pos1,
    pos2,
    run_mode,
    buf1,
    buf2,
    result_array,
    result_position,
    num_read1,
    num_read2

vecVars == <<vpc, file1, file2, pos1, pos2, run_mode, buf1, buf2, result_array,
             result_position, num_read1, num_read2>>

\* subnet_calculator/main.c: the function called with its arguments, what it
\* returned, and vlsm's in-out array with its local sums; `requests' keeps the
\* host counts the array was passed with
VARIABLES
    spc,
    sfn,
    sargs,
    sret,
    original_subnet,
    subnets,
    total_num_ip_address_required,
    total_num_ip_address_available,
    requests

subnetVars == <<spc, sfn, sargs, sret, original_subnet, subnets,
                total_num_ip_address_required, total_num_ip_address_available, requests>>

\* the pi programs of openmp: the version of parse_args that is linked, the
\* arguments of the process, errno, the structure returned, the lines printed,
\* the exit status, and whether main has gone on to time compute_pi
VARIABLES
    apc,
    variant,
    argv,
    errno,
    args,
    printed,
    exit_status,
    computed

argsVars == <<apc, variant, argv, errno, args, printed, exit_status, computed>>

\* the OpenMP pi programs: the program run, its macros (or the members of
\* struct pi that stand for them), main's position and timeit's counter, the
\* team of the parallel region with each thread's position, loop variable and
\* loop end, the sums (an element of the sum array, or a thread's local sum),
\* the thread in the critical section, the static pi, what main computes from
\* the sums, and actual_num_threads. A sum is held as the sequence of the
\* indices whose terms were added to it, in order
VARIABLES
    opc,
    program,
    NUM_STEPS,
    NUM_THREADS,
    repetition,
    num_threads,
    tpc,
    ti,
    end_num_steps,
    sums,
    critical,
    static_pi,
    total_sum,
    actual_num_threads

ompVars == <<opc, program, NUM_STEPS, NUM_THREADS, repetition, num_threads, tpc, ti,
             end_num_steps, sums, critical, static_pi, total_sum, actual_num_threads>>

\* the variables of the other programs
others == <<vecVars, subnetVars, argsVars, ompVars>>

outsideVec == <<javaVars, subnetVars, argsVars, ompVars>>

outsideSubnet == <<javaVars, vecVars, argsVars, ompVars>>

outsideArgs == <<javaVars, vecVars, subnetVars, ompVars>>

outsideOmp == <<javaVars, vecVars, subnetVars, argsVars>>

vars == <<pc, fn, ret, singleFloatingPointBinary, mantissa, fraction, i, exponent, sign,
          result, numSteps, precision, stepSize, sum, SINGLE_FP_EXPONENT_BIAS, first,
          stdout, others>>

edLocals == <<singleFloatingPointBinary, mantissa, fraction, exponent, sign, result>>

piLocals == <<numSteps, precision, stepSize, sum>>

\* new MathContext(50, RoundingMode.HALF_EVEN)
PowContext == MathContext(50, "HALF_EVEN")

\* new MathContext(precision, RoundingMode.HALF_UP)
PiContext(p) == MathContext(p, "HALF_UP")

JavaInit ==
    /\ pc = "idle" /\ fn = "none" /\ ret = NoRet
    /\ singleFloatingPointBinary = <<>> /\ mantissa = Undef /\ fraction = <<>>
    /\ i = 0 /\ exponent = 0 /\ sign = 0 /\ result = Undef
    /\ numSteps = 0 /\ precision = 0 /\ stepSize = Undef /\ sum = Undef
    /\ SINGLE_FP_EXPONENT_BIAS = 127
    /\ first = NoCall
    /\ stdout = <<>>

\* run() is not running
VecIdle ==
    /\ vpc = "off" /\ file1 = <<>> /\ file2 = <<>> /\ pos1 = 0 /\ pos2 = 0
    /\ run_mode = "NULL" /\ buf1 = <<>> /\ buf2 = <<>> /\ result_array = <<>>
    /\ result_position = 0 /\ num_read1 = 0 /\ num_read2 = 0

\* no function of the subnet calculator has been called
SubnetIdle ==
    /\ spc = "idle" /\ sfn = "none" /\ sargs = <<>> /\ sret = Undef
    /\ original_subnet = Undef /\ subnets = <<>>
    /\ total_num_ip_address_required = <<0, 0>>
    /\ total_num_ip_address_available = <<0, 0>>
    /\ requests = <<>>

\* no pi program has been started
ArgsIdle ==
    /\ apc = "off" /\ variant = "none" /\ argv = <<>> /\ errno = "0"
    /\ args = Undef /\ printed = <<>> /\ exit_status = "none" /\ computed = FALSE

\* no OpenMP program has been started
OmpIdle ==
    /\ opc = "off" /\ program = "none" /\ NUM_STEPS = 0 /\ NUM_THREADS = 0
    /\ repetition = 0 /\ num_threads = 0 /\ tpc = <<>> /\ ti = <<>>
    /\ end_num_steps = <<>> /\ sums = <<>> /\ critical = <<>>
    /\ static_pi = <<>> /\ total_sum = Undef /\ actual_num_threads = Undef

Init == JavaInit /\ VecIdle /\ SubnetIdle /\ ArgsIdle /\ OmpIdle

CanCall == pc \in {"idle", "done"}

\* History of the calls, kept for the comparison of two calls with the same
\* arguments: `first' is a completed call that was recorded, with its outcome,
\* and tells whether a call with other arguments has been made since.
SameCall(c, f, str, n, p) == c.fn = f /\ c.str = str /\ c.numSteps = n /\ c.precision = p

Noted(c, f, str, n, p) ==
    IF c.fn = "none" \/ SameCall(c, f, str, n, p) THEN c ELSE [c EXCEPT !.other = TRUE]

NoPiFrame == numSteps' = 0 /\ precision' = 0 /\ stepSize' = Undef /\ sum' = Undef

NoEdFrame ==
    /\ singleFloatingPointBinary' = <<>> /\ mantissa' = Undef /\ fraction' = <<>>
    /\ exponent' = 0 /\ sign' = 0 /\ result' = Undef

Throw(e) == pc' = "done" /\ ret' = Thrown(e)

\* exactDecimal, lines 9-12: mantissa = ONE; fraction = substring(9)
CallExactDecimal(str) ==
    /\ CanCall
    /\ fn' = "exactDecimal"
    /\ singleFloatingPointBinary' = str
    /\ mantissa' = BdOne
    /\ i' = 0 /\ exponent' = 0 /\ sign' = 0 /\ result' = Undef
    /\ NoPiFrame
    /\ IF Len(str) < 9
       THEN Throw("StringIndexOutOfBoundsException") /\ fraction' = <<>>
       ELSE pc' = "ed_loop" /\ ret' = NoRet /\ fraction' = Sub(str, 10, Len(str))
    /\ first' = Noted(first, "exactDecimal", str, 0, 0)
    /\ UNCHANGED <<SINGLE_FP_EXPONENT_BIAS, stdout, others>>

\* Double.toString of the literal 0.123456789123456789123456789123456789123456789,
\* the line that System.out.println(d) writes
PrintedDouble == "0.12345678912345678"

\* binaryToFloat of the first version of the class: the entry prints d, and the
\* rest of the body is that of exactDecimal
CallBinaryToFloat(binary) ==
    /\ CanCall
    /\ Len(stdout) < MaxOutput
    /\ stdout' = Append(stdout, PrintedDouble)
    /\ fn' = "binaryToFloat"
    /\ singleFloatingPointBinary' = binary
    /\ mantissa' = BdOne
    /\ i' = 0 /\ exponent' = 0 /\ sign' = 0 /\ result' = Undef
    /\ NoPiFrame
    /\ IF Len(binary) < 9
       THEN Throw("StringIndexOutOfBoundsException") /\ fraction' = <<>>
       ELSE pc' = "ed_loop" /\ ret' = NoRet /\ fraction' = Sub(binary, 10, Len(binary))
    /\ first' = Noted(first, "binaryToFloat", binary, 0, 0)
    /\ UNCHANGED <<SINGLE_FP_EXPONENT_BIAS, others>>

\* the digit of the loop body: Long.parseLong(fraction.substring(i,i+1))
FractionDigit(fr, k) == ParseNumber(<<fr[k + 1]>>, 10)

\* lines 13-16: one iteration of the loop over the fraction
EdLoop ==
    /\ pc = "ed_loop" /\ i < Len(fraction)
    /\ LET d == FractionDigit(fraction, i)
       IN  IF ~d.ok
           THEN Throw("NumberFormatException") /\ UNCHANGED <<mantissa, i>>
           ELSE /\ mantissa' = BdAdd(mantissa,
                                     BdMultiply(BdValueOf(d.val), BdPow(BdHalf, i + 1)))
                /\ i' = i + 1
                /\ UNCHANGED <<pc, ret>>
    /\ UNCHANGED <<fn, singleFloatingPointBinary, fraction, exponent, sign, result,
                   piLocals, SINGLE_FP_EXPONENT_BIAS, first, stdout, others>>

\* Integer.valueOf(singleFloatingPointBinary.substring(1,9),2) - SINGLE_FP_EXPONENT_BIAS
ExponentOf(field, bias) == field - bias

\* line 17, after the loop
EdExponent ==
    /\ pc = "ed_loop" /\ ~(i < Len(fraction))
    /\ LET e == ParseNumber(Sub(singleFloatingPointBinary, 2, 9), 2)
       IN  IF ~e.ok
           THEN Throw("NumberFormatException") /\ UNCHANGED exponent
           ELSE /\ exponent' = ExponentOf(e.val, SINGLE_FP_EXPONENT_BIAS)
                /\ pc' = "ed_sign"
                /\ UNCHANGED ret
    /\ UNCHANGED <<fn, singleFloatingPointBinary, mantissa, fraction, i, sign, result,
                   piLocals, SINGLE_FP_EXPONENT_BIAS, first, stdout, others>>

\* int sign = fraction.charAt(0) == '0' ? 1 : -1;
SignOf(str, fr) == IF fr[1] = "0" THEN 1 ELSE -1

\* line 18
EdSign ==
    /\ pc = "ed_sign"
    /\ IF fraction = <<>>
       THEN Throw("StringIndexOutOfBoundsException") /\ UNCHANGED sign
       ELSE /\ sign' = SignOf(singleFloatingPointBinary, fraction)
            /\ pc' = "ed_pow"
            /\ UNCHANGED ret
    /\ UNCHANGED <<fn, singleFloatingPointBinary, mantissa, fraction, i, exponent, result,
                   piLocals, SINGLE_FP_EXPONENT_BIAS, first, stdout, others>>

\* BigDecimal.valueOf(2).pow(exponent, new MathContext(50, RoundingMode.HALF_EVEN))
PowerOfTwo(e) == BdPowMc(BdValueOf(2), e, PowContext)

\* mantissa.multiply(p), p the outcome of pow
Scaled(p) ==
    IF p.exc # "none"
    THEN Throw(p.exc) /\ UNCHANGED result
    ELSE /\ result' = BdMultiply(mantissa, p.val)
         /\ pc' = "ed_return"
         /\ UNCHANGED ret

\* line 19: result = mantissa.multiply(2^exponent)
EdPow ==
    /\ pc = "ed_pow"
    /\ Scaled(PowerOfTwo(exponent))
    /\ UNCHANGED <<fn, singleFloatingPointBinary, mantissa, fraction, i, exponent, sign,
                   piLocals, SINGLE_FP_EXPONENT_BIAS, first, stdout, others>>

\* line 20: return result.multiply(BigDecimal.valueOf(sign));
EdReturn ==
    /\ pc = "ed_return"
    /\ ret' = Value(BdMultiply(result, BdValueOf(sign)))
    /\ pc' = "done"
    /\ UNCHANGED <<fn, edLocals, i, piLocals, SINGLE_FP_EXPONENT_BIAS, first, stdout, others>>

\* float_pi, double_pi (entry) and arbitrary_precision_pi (lines 43-46: the
\* MathContext constructor throws IllegalArgumentException for precision < 0)
CallPi(f, n, p) ==
    /\ CanCall
    /\ fn' = f
    /\ numSteps' = n
    /\ precision' = p
    /\ stepSize' = Undef /\ sum' = Undef /\ i' = 0
    /\ NoEdFrame
    /\ IF f = "arbitrary_precision_pi" /\ p < 0
       THEN Throw("IllegalArgumentException")
       ELSE pc' = "pi_step" /\ ret' = NoRet
    /\ first' = Noted(first, f, <<>>, n, p)
    /\ UNCHANGED <<SINGLE_FP_EXPONENT_BIAS, stdout, others>>

\* stepSize = st and sum = 0, st the outcome of the division
Stepped(st) ==
    IF st.exc # "none"
    THEN Throw(st.exc) /\ UNCHANGED <<stepSize, sum>>
    ELSE /\ stepSize' = st.val
         /\ sum' = SumZero(fn)
         /\ pc' = "pi_loop"
         /\ UNCHANGED ret

\* lines 24-25, 34-35, 47-48: the step size and the zero sum
PiStepSize ==
    /\ pc = "pi_step"
    /\ Stepped(StepSizeOf(fn, numSteps, PiContext(precision)))
    /\ i' = 0
    /\ UNCHANGED <<fn, edLocals, numSteps, precision, SINGLE_FP_EXPONENT_BIAS, first, stdout, others>>

\* a loop that runs once more
LoopInclusive(k, n) == k <= n

\* the loop condition i<numSteps
LoopCondition(k, n) == k < n

\* sum += t, t the outcome of the term's division
Added(t) ==
    IF t.exc # "none"
    THEN Throw(t.exc) /\ UNCHANGED <<sum, i>>
    ELSE /\ sum' = AddTerm(fn, sum, t.val)
         /\ i' = i + 1
         /\ UNCHANGED <<pc, ret>>

\* lines 26-29, 36-39, 49-52: one iteration
PiIter ==
    /\ pc = "pi_loop" /\ LoopCondition(i, numSteps)
    /\ Added(TermOf(fn, i, stepSize, PiContext(precision)))
    /\ UNCHANGED <<fn, edLocals, numSteps, precision, stepSize,
                   SINGLE_FP_EXPONENT_BIAS, first, stdout, others>>

\* lines 30, 40, 53: return sum*stepSize
PiReturn ==
    /\ pc = "pi_loop" /\ ~LoopCondition(i, numSteps)
    /\ ret' = Value(ResultOf(fn, sum, stepSize))
    /\ pc' = "done"
    /\ UNCHANGED <<fn, edLocals, i, piLocals, SINGLE_FP_EXPONENT_BIAS, first, stdout, others>>

Call ==
    \/ \E str \in Strings : CallExactDecimal(str)
    \/ \E n \in StepCounts : CallPi("float_pi", n, 0)
    \/ \E n \in StepCounts : CallPi("double_pi", n, 0)
    \/ \E n \in StepCounts, p \in Precisions : CallPi("arbitrary_precision_pi", n, p)

Next ==
    \/ Call
    \/ EdLoop
    \/ EdExponent
    \/ EdSign
    \/ EdPow
    \/ EdReturn
    \/ PiStepSize
    \/ PiIter
    \/ PiReturn

Spec == Init /\ [][Next]_vars

(***************************************************************************)
(* Two calls with the same arguments: one completed call is recorded, with *)
(* its outcome, and compared with every later call of the same arguments.  *)
(* The calls recorded are the three estimators at the largest step count   *)
(* and precision, and the converter on three strings.                      *)
(***************************************************************************)
RecalledStrings ==
    { <<c>> \o ToBits(1, 8) \o Rep("1", 23) : c \in Bit }
        \cup { <<"0">> \o ToBits(127, 8) \o Rep("0", 11) \o <<"x">> \o Rep("0", 11) }

Recalled ==
    \/ fn = "exactDecimal" /\ singleFloatingPointBinary \in RecalledStrings
    \/ fn \in {"float_pi", "double_pi"} /\ numSteps = MaxSteps
    \/ fn = "arbitrary_precision_pi" /\ numSteps = MaxSteps /\ precision = MaxPrecision

Remember ==
    /\ pc = "done" /\ first = NoCall /\ Recalled
    /\ first' = [fn |-> fn, str |-> singleFloatingPointBinary, numSteps |-> numSteps,
                 precision |-> precision, ret |-> ret, other |-> FALSE]
    /\ UNCHANGED <<pc, fn, ret, edLocals, i, piLocals, SINGLE_FP_EXPONENT_BIAS, stdout, others>>

NextDet == Next \/ Remember

SpecDet == Init /\ [][NextDet]_vars

(***************************************************************************)
(* The first version of the class (src/floatingpoint): calls of            *)
(* binaryToFloat only.                                                      *)
(***************************************************************************)
NextOut ==
    \/ \E binary \in Strings : CallBinaryToFloat(binary)
    \/ EdLoop
    \/ EdExponent
    \/ EdSign
    \/ EdPow
    \/ EdReturn

SpecOut == Init /\ [][NextOut]_vars

(***************************************************************************)
(* vectorization/main.c: run() adds two files of 4-byte integers chunk by  *)
(* chunk into the result array, with add_arrays_scalar or add_arrays_avx2. *)
(* An array is a sequence, C index k at position k + 1.  The sizes are     *)
(* scaled: the buffers hold BufVectors vectors of 8 integers and the       *)
(* result array ResultChunks buffers (128 in the source), and the files    *)
(* fit the result array, as the source asks of the values it is compiled   *)
(* with (lines 143-145).                                                   *)
(***************************************************************************)
\* the integers of a 256-bit vector: BASE_SIZE is the size in bytes of 8 integers
Lanes == 8

BufVectors == 2

\* BUF_SIZE, the integers of a buffer: a multiple of the vector
BUF_SIZE == Lanes * BufVectors

ResultChunks == 2

\* num_integers = FILE_SIZE/sizeof(int32_t)
NumIntegers == BUF_SIZE * ResultChunks

MaxInts == 20

INT32_MAX == 2147483647

INT32_MIN == (-INT32_MAX) - 1

\* a[i] + b[i] on int32_t and _mm256_add_epi32 on one lane: the sum modulo 2^32
\* (the scalar sum compiles to the processor's 32-bit addition)
Add32(a, b) ==
    IF a > 0 /\ b > 0 /\ a > INT32_MAX - b THEN (a - INT32_MAX - 1) + (b - INT32_MAX - 1)
    ELSE IF a < 0 /\ b < 0 /\ a < INT32_MIN - b THEN (a + INT32_MAX + 1) + (b + INT32_MAX + 1)
    ELSE a + b

\* the integers a file can hold here, and the files: a file of n integers
\* repeats the samples from the place ph on, so that every pair of samples meets
Samples == <<1, INT32_MAX, -5, INT32_MIN>>

FileOf(n, ph) == [k \in 1..n |-> Samples[((k + ph) % Len(Samples)) + 1]]

Lengths == 0..Min(MaxInts, NumIntegers)

Phases == 0..(Len(Samples) - 1)

\* run_mode: no third argument, "AVX2", or another word
RunModes == {"NULL", "AVX2", "SCALAR"}

\* what malloc'ed memory may hold before it is written
Garbage == {0, 123}

\* a loop over whole vectors only
WholeVectors(size) == size \div Lanes

\* the iterations of for (size_t i = 0; i < size; i += 8)
VectorCount(size) == (size + Lanes - 1) \div Lanes

\* add_arrays_avx2(a, b, c + off, size): every iteration loads, adds and stores
\* 8 elements, those from `size' to the end of the last vector included
add_arrays_avx2(a, b, c, off, size) ==
    [k \in 1..Len(c) |->
        IF k > off /\ k <= off + Lanes * VectorCount(size)
        THEN Add32(a[k - off], b[k - off]) ELSE c[k]]

\* add_arrays_scalar(a, b, c + off, size)
add_arrays_scalar(a, b, c, off, size) ==
    [k \in 1..Len(c) |->
        IF k > off /\ k <= off + size THEN Add32(a[k - off], b[k - off]) ELSE c[k]]

\* read_next: fread's count, and the buffer with the integers read at its start
read_next(file, pos) == Min(BUF_SIZE, Len(file) - pos)

Filled(file, pos, buf, n) ==
    [k \in 1..BUF_SIZE |-> IF k <= n THEN file[pos + k] ELSE buf[k]]

\* the state before run() is called with its two files and its mode
VecInit ==
    /\ vpc = "start"
    /\ \E n \in Lengths : file1 = FileOf(n, 0)
    /\ \E n \in Lengths, ph \in Phases : file2 = FileOf(n, ph)
    /\ run_mode \in RunModes
    /\ pos1 = 0 /\ pos2 = 0
    /\ buf1 = <<>> /\ buf2 = <<>> /\ result_array = <<>>
    /\ result_position = 0 /\ num_read1 = 0 /\ num_read2 = 0

\* lines 110-117: the three allocations, result_position = 0, the files opened
RunStart ==
    /\ vpc = "start"
    /\ \E g \in Garbage :
          /\ buf1' = [k \in 1..BUF_SIZE |-> g]
          /\ buf2' = [k \in 1..BUF_SIZE |-> g]
          /\ result_array' = [k \in 1..NumIntegers |-> g]
    /\ result_position' = 0
    /\ pos1' = 0 /\ pos2' = 0
    /\ vpc' = "loop"
    /\ UNCHANGED <<file1, file2, run_mode, num_read1, num_read2, outsideVec>>

\* lines 122-134: the body of the loop for the two counts read
RunBody(n1, n2) ==
    /\ result_array' =
          IF run_mode = "AVX2"
          THEN add_arrays_avx2(buf1', buf2', result_array, result_position, Min(n1, n2))
          ELSE add_arrays_scalar(buf1', buf2', result_array, result_position, Min(n1, n2))
    /\ result_position' = result_position + Min(n1, n2)
    /\ UNCHANGED vpc

\* the second operand of the loop condition, evaluated when the first read
\* something
RunReadSecond(n1, n2) ==
    /\ num_read2' = n2
    /\ buf2' = Filled(file2, pos2, buf2, n2)
    /\ pos2' = pos2 + n2
    /\ IF n2 > 0 THEN RunBody(n1, n2)
       ELSE vpc' = "done" /\ UNCHANGED <<result_array, result_position>>

RunRead(n1) ==
    /\ num_read1' = n1
    /\ buf1' = Filled(file1, pos1, buf1, n1)
    /\ pos1' = pos1 + n1
    /\ IF n1 > 0 THEN RunReadSecond(n1, read_next(file2, pos2))
       ELSE /\ vpc' = "done"
            /\ UNCHANGED <<num_read2, buf2, pos2, result_array, result_position>>

\* lines 120-135: the loop condition and, when it holds, one iteration
RunLoop ==
    /\ vpc = "loop"
    /\ RunRead(read_next(file1, pos1))
    /\ UNCHANGED <<file1, file2, run_mode, outsideVec>>

NextVec == RunStart \/ RunLoop

InitVec == JavaInit /\ VecInit /\ SubnetIdle /\ ArgsIdle /\ OmpIdle

SpecVec == InitVec /\ [][NextVec]_vars

(***************************************************************************)
(* subnet_calculator/main.c.  A uint32_t is the pair <<hi, lo>> of its two  *)
(* 16-bit halves, so that the 32 bits are kept whatever the width of the   *)
(* model checker's integers; the arithmetic is modulo 2^32.                 *)
(***************************************************************************)
Half == 65536

U32(n) == <<(n \div Half) % Half, n % Half>>

U32Zero == <<0, 0>>

U32One == <<0, 1>>

\* 0xFFFFFFFF
U32Ones == <<Half - 1, Half - 1>>

U32Add(a, b) == <<(a[1] + b[1] + ((a[2] + b[2]) \div Half)) % Half, (a[2] + b[2]) % Half>>

U32Sub(a, b) ==
    <<(a[1] - b[1] - (IF a[2] < b[2] THEN 1 ELSE 0) + Half) % Half, (a[2] - b[2] + Half) % Half>>

U32Less(a, b) == a[1] < b[1] \/ (a[1] = b[1] /\ a[2] < b[2])

RECURSIVE And16(_, _, _)
And16(a, b, n) ==
    IF n = 0 THEN 0 ELSE (a % 2) * (b % 2) + 2 * And16(a \div 2, b \div 2, n - 1)

RECURSIVE Or16(_, _, _)
Or16(a, b, n) ==
    IF n = 0 THEN 0
    ELSE (IF a % 2 = 1 \/ b % 2 = 1 THEN 1 ELSE 0) + 2 * Or16(a \div 2, b \div 2, n - 1)

U32And(a, b) == <<And16(a[1], b[1], 16), And16(a[2], b[2], 16)>>

U32Or(a, b) == <<Or16(a[1], b[1], 16), Or16(a[2], b[2], 16)>>

\* a << k and a >> k for 0 <= k <= 31
U32Shl(a, k) ==
    IF k >= 16 THEN <<(a[2] * 2^(k - 16)) % Half, 0>>
    ELSE <<(a[1] * 2^k + (a[2] * 2^k) \div Half) % Half, (a[2] * 2^k) % Half>>

U32Shr(a, k) ==
    IF k >= 16 THEN <<0, a[1] \div 2^(k - 16)>>
    ELSE <<a[1] \div 2^k, (a[2] \div 2^k + (a[1] % 2^k) * 2^(16 - k)) % Half>>

\* A shift of a 32-bit operand by 32 or more is undefined; what it gives is
\* the operand shifted by the count modulo 32 (the processor's shift), or zero.
ShlOutcomes(a, k) == IF k < 32 THEN {U32Shl(a, k)} ELSE {U32Shl(a, k % 32), U32Zero}

ShrOutcomes(a, k) == IF k < 32 THEN {U32Shr(a, k)} ELSE {U32Shr(a, k % 32), U32Zero}

\* the results of out-of-range conversions from double to int: undefined, the
\* processor's "indefinite" value or a saturated one
UbInts == {INT32_MIN, INT32_MAX}

\* (int) log2(x) for x >= 1: log2 is exact on the powers of two and is below
\* the next integer elsewhere, so the conversion gives the floor
RECURSIVE Log2ToInt(_)
Log2ToInt(x) == IF x < 2 THEN 0 ELSE 1 + Log2ToInt(x \div 2)

\* (int) exp2(k): 0 for the fractions, out of int's range from 2^31 on
Exp2ToInt(k) == IF k < 0 THEN {0} ELSE IF k <= 30 THEN {2^k} ELSE UbInts

\* (uint32_t) exp2(k) for 0 <= k: out of range from 2^32 on
Exp2ToU32(k) == IF k <= 31 THEN {U32Shl(U32One, k)} ELSE {U32Zero, U32Ones}

\* subnet_t
SubnetT(network, broadcast, mask, p) ==
    [network_address |-> network,
     broadcast_address |-> broadcast,
     first_address |-> U32Add(network, U32One),
     last_address |-> U32Sub(broadcast, U32One),
     next_network |-> U32Add(broadcast, U32One),
     subnet_mask |-> U32Or(network, mask),
     num_ip_addresses |-> U32Add(U32Sub(broadcast, network), U32One),
     prefixlen |-> p]

\* subnet_calculator(ip_address, cidr_prefix): the structures it can return, one
\* for each outcome of its three shifts
subnet_calculator(ip_address, cidr_prefix) ==
    { SubnetT(U32And(ip_address, m1), U32Or(ip_address, m2), m3, cidr_prefix) :
        m1 \in ShlOutcomes(U32Ones, 32 - cidr_prefix),
        m2 \in ShrOutcomes(U32Ones, cidr_prefix),
        m3 \in ShlOutcomes(U32Ones, 32 - cidr_prefix) }

\* calculate_subnet_size(original_subnet_size, num_subnets)
calculate_subnet_size(original_subnet_size, num_subnets) ==
    original_subnet_size + Log2ToInt(num_subnets) + 1

\* calculate_num_subnets(original_subnet_size, num_ip_addresses): the values it
\* can return
calculate_num_subnets(original_subnet_size, num_ip_addresses) ==
    Exp2ToInt(32 - (Log2ToInt(num_ip_addresses) + 1) - original_subnet_size)

\* the bits of a count taken as they are
NumBitsExact(num_ip_addresses) == Log2ToInt(num_ip_addresses) + 1

\* int num_bits = log2(num_ip_addresses + usable_ip_addresses_factor) + 1;
NumBits(num_ip_addresses) == Log2ToInt(num_ip_addresses + 1) + 1

calculate_subnet_prefixlen(num_ip_addresses) == 32 - NumBits(num_ip_addresses)

(***************************************************************************)
(* The calls: one call in a run, of one of the five functions.              *)
(***************************************************************************)
MaxCount == 128

MaxHosts == 64

MaxSubnets == 3

\* 0.0.0.0, 9.9.8.2, 9.9.8.0 (151587072), 192.168.1.77, 128.0.0.0, 255.255.255.255
Addresses ==
    {U32Zero, <<2313, 2050>>, <<2313, 2048>>, <<49320, 333>>, <<32768, 0>>, U32Ones}

Prefixes == 0..32

Counts == 1..MaxCount

HostCounts == 1..MaxHosts

\* the networks vlsm is called with and the host counts asked of it
Originals == {[network_address |-> <<2313, 2048>>, prefixlen |-> p] : p \in {23, 24, 30}}

RequestedHosts == {10, 25, 50, 63, MaxHosts}

RECURSIVE SeqsOf(_, _)
SeqsOf(S, n) ==
    IF n = 0 THEN {<<>>} ELSE {Append(q, x) : q \in SeqsOf(S, n - 1), x \in S}

Requests == UNION {SeqsOf(RequestedHosts, n) : n \in 0..MaxSubnets}

Returned(f, a, r) ==
    /\ spc = "idle"
    /\ sfn' = f /\ sargs' = a /\ sret' = r
    /\ spc' = "done"
    /\ UNCHANGED <<original_subnet, subnets, total_num_ip_address_required,
                   total_num_ip_address_available, requests, outsideSubnet>>

CallSubnetCalculator(ip, p) ==
    \E r \in subnet_calculator(ip, p) : Returned("subnet_calculator", <<ip, p>>, r)

CallCalculateSubnetSize(n, x) ==
    Returned("calculate_subnet_size", <<n, x>>, calculate_subnet_size(n, x))

CallCalculateNumSubnets(n, a) ==
    \E r \in calculate_num_subnets(n, a) : Returned("calculate_num_subnets", <<n, a>>, r)

CallCalculateSubnetPrefixlen(h) ==
    Returned("calculate_subnet_prefixlen", <<h>>, calculate_subnet_prefixlen(h))

\* an element of the array as the caller makes it: {.num_ip_addresses = h}
Requested(h) ==
    [network_address |-> U32Zero, broadcast_address |-> U32Zero, first_address |-> U32Zero,
     last_address |-> U32Zero, next_network |-> U32Zero, subnet_mask |-> U32Zero,
     num_ip_addresses |-> U32(h), prefixlen |-> 0]

\* the field num_ip_addresses passed as the int parameter (a count below 2^31)
HostsOf(s) == s.num_ip_addresses[1] * Half + s.num_ip_addresses[2]

\* vlsm(original_subnet, subnets, num_subnets): entry
CallVlsm(orig, req) ==
    /\ spc = "idle"
    /\ sfn' = "vlsm" /\ sargs' = <<orig, req>> /\ sret' = Undef
    /\ original_subnet' = orig
    /\ subnets' = [k \in 1..Len(req) |-> Requested(req[k])]
    /\ requests' = req
    /\ total_num_ip_address_required' = U32Zero
    /\ total_num_ip_address_available' = U32Zero
    /\ spc' = "vlsm_check"
    /\ UNCHANGED outsideSubnet

\* lines 173-176: the sum of what calculate_subnet_prefixlen returns
RECURSIVE RequiredFrom(_, _, _)
RequiredFrom(subs, k, total) ==
    IF k > Len(subs) THEN total
    ELSE RequiredFrom(subs, k + 1,
                      U32Add(total, U32(calculate_subnet_prefixlen(HostsOf(subs[k])))))

\* lines 173-178: the sanity check; a failed assert aborts the process
VlsmCheck ==
    /\ spc = "vlsm_check"
    /\ total_num_ip_address_required' = RequiredFrom(subnets, 1, U32Zero)
    /\ \E avail \in Exp2ToU32(32 - original_subnet.prefixlen) :
          total_num_ip_address_available' = avail
    /\ spc' = IF U32Less(total_num_ip_address_required', total_num_ip_address_available')
              THEN "vlsm_prefixlen" ELSE "aborted"
    /\ UNCHANGED <<sfn, sargs, sret, original_subnet, subnets, requests, outsideSubnet>>

\* lines 181-183
VlsmPrefixlen ==
    /\ spc = "vlsm_prefixlen"
    /\ subnets' = [k \in 1..Len(subnets) |->
                      [subnets[k] EXCEPT !.prefixlen =
                          calculate_subnet_prefixlen(HostsOf(subnets[k]))]]
    /\ spc' = "vlsm_sort"
    /\ UNCHANGED <<sfn, sargs, sret, original_subnet, total_num_ip_address_required,
                   total_num_ip_address_available, requests, outsideSubnet>>

Orders(n) == {f \in [1..n -> 1..n] : \A a, b \in 1..n : a # b => f[a] # f[b]}

\* the orders in which any arrangement of the array is accepted
AnyOrder(subs) == Orders(Len(subs))

\* qsort with compare_func: the orders that leave the array sorted by prefixlen
\* (elements that compare equal may come in any order)
SortedOrders(subs) ==
    {f \in Orders(Len(subs)) :
        \A k \in 1..(Len(subs) - 1) : subs[f[k]].prefixlen <= subs[f[k + 1]].prefixlen}

\* line 186
VlsmSort ==
    /\ spc = "vlsm_sort"
    /\ \E f \in SortedOrders(subnets) : subnets' = [k \in 1..Len(subnets) |-> subnets[f[k]]]
    /\ spc' = "vlsm_allocate"
    /\ UNCHANGED <<sfn, sargs, sret, original_subnet, total_num_ip_address_required,
                   total_num_ip_address_available, requests, outsideSubnet>>

\* lines 189-192: the arrays that the allocation can leave, the element k at
\* the address where the element before it ends
RECURSIVE Allocated(_, _, _, _)
Allocated(subs, k, address, done) ==
    IF k > Len(subs) THEN {done}
    ELSE UNION { Allocated(subs, k + 1, s.next_network, Append(done, s)) :
                    s \in subnet_calculator(address, subs[k].prefixlen) }

\* lines 189-194; with no element, subnets[0] is outside the array and the
\* assignment to it undefined: the process may go on or be killed
VlsmAllocate ==
    /\ spc = "vlsm_allocate"
    /\ IF Len(subnets) = 0
       THEN spc' \in {"done", "killed"} /\ UNCHANGED subnets
       ELSE /\ subnets' \in Allocated(subnets, 1, original_subnet.network_address, <<>>)
            /\ spc' = "done"
    /\ sret' = IF spc' = "done" THEN subnets' ELSE Undef
    /\ UNCHANGED <<sfn, sargs, original_subnet, total_num_ip_address_required,
                   total_num_ip_address_available, requests, outsideSubnet>>

\* main: the call of the run
SubnetCall ==
    /\ spc = "idle"
    /\ \/ \E ip \in Addresses, p \in Prefixes : CallSubnetCalculator(ip, p)
       \/ \E n \in Prefixes, x \in Counts : CallCalculateSubnetSize(n, x)
       \/ \E n \in Prefixes, a \in Counts : CallCalculateNumSubnets(n, a)
       \/ \E h \in HostCounts : CallCalculateSubnetPrefixlen(h)
       \/ \E orig \in Originals, req \in Requests : CallVlsm(orig, req)

NextSubnet ==
    \/ SubnetCall
    \/ VlsmCheck
    \/ VlsmPrefixlen
    \/ VlsmSort
    \/ VlsmAllocate

SpecSubnet == Init /\ [][NextSubnet]_vars

\* ---------------------------------------------------------------------------
\* The pi programs of openmp: parse_args and the start of main
\* ---------------------------------------------------------------------------

\* the number of options given to a program
MaxOptions == 2

ERANGE == "ERANGE"

EXIT_FAILURE == "EXIT_FAILURE"

\* ULONG_MAX = 2^64 - 1 and INT_MAX = 2^31 - 1 as natural numbers
ULONG_MAX == <<615, 551, 709, 73, 744, 446, 18>>

IntMaxN == <<647, 483, 147, 2>>

\* a natural number no larger than INT_MAX as an int
LimbsToInt(v) == Dig(v, 1) + 1000 * Dig(v, 2) + 1000000 * Dig(v, 3) + 1000000000 * Dig(v, 4)

\* the character at position k of a C string; "" is the terminating null
At(str, k) == IF k >= 1 /\ k <= Len(str) THEN str[k] ELSE ""

\* isspace
RECURSIVE SkipSpaces(_, _)
SkipSpaces(str, k) == IF At(str, k) \in {" ", "\t", "\n"} THEN SkipSpaces(str, k + 1) ELSE k

HexDigits == DecimalDigits \o <<"a", "b", "c", "d", "e", "f">>

\* the value of the digit c in the base, -1 when c is not one of its digits
DigitOf(c, base) ==
    IF \E v \in 1..base : HexDigits[v] = c
    THEN (CHOOSE v \in 1..base : HexDigits[v] = c) - 1
    ELSE -1

\* the number written by the longest run of digits of the base from position k
RECURSIVE DigitsFrom(_, _, _, _)
DigitsFrom(str, k, base, acc) ==
    IF DigitOf(At(str, k), base) < 0 \/ Len(acc) < 0 THEN acc
    ELSE DigitsFrom(str, k + 1, base,
                    AddN(MulSmall(acc, base), FromInt(DigitOf(At(str, k), base))))

AfterSign(str, k) == IF At(str, k) \in {"+", "-"} THEN k + 1 ELSE k

IsHex(str, k) ==
    At(str, k) = "0" /\ At(str, k + 1) \in {"x", "X"} /\ DigitOf(At(str, k + 2), 16) >= 0

\* the digits of strtoul with base 0: 0x starts a hexadecimal number, 0 an
\* octal one, anything else a decimal one
Magnitude0(str, k) ==
    IF IsHex(str, k) THEN DigitsFrom(str, k + 2, 16, <<>>)
    ELSE IF At(str, k) = "0" THEN DigitsFrom(str, k, 8, <<>>)
    ELSE DigitsFrom(str, k, 10, <<>>)

\* a number above ULONG_MAX gives ULONG_MAX and sets errno; a minus sign
\* negates the number in unsigned long; no digits give 0
StrtoulOf(neg, v, e) ==
    IF CmpN(v, ULONG_MAX) > 0 THEN [val |-> ULONG_MAX, errno |-> ERANGE]
    ELSE [val |-> IF neg /\ v # <<>> THEN SubN(AddN(ULONG_MAX, <<1>>), v) ELSE v,
          errno |-> e]

StrtoulAt(str, k, e) == StrtoulOf(At(str, k) = "-", Magnitude0(str, AfterSign(str, k)), e)

\* strtoul(str, NULL, 0) when errno is e: the value and the new errno
strtoul(str, e) == StrtoulAt(str, SkipSpaces(str, 1), e)

\* what atoi may give for a number that an int cannot hold (the behaviour is
\* undefined): a truncated or a saturated value, with errno set or not
AtoiUb == UbInts \cup {0, -1}

AtoiOf(neg, v, e) ==
    IF CmpN(v, IntMaxN) <= 0
    THEN {[val |-> IF neg THEN -LimbsToInt(v) ELSE LimbsToInt(v), errno |-> e]}
    ELSE IF neg /\ v = AddN(IntMaxN, <<1>>) THEN {[val |-> INT32_MIN, errno |-> e]}
    ELSE {[val |-> x, errno |-> f] : x \in AtoiUb, f \in {e, ERANGE}}

AtoiAt(str, k, e) == AtoiOf(At(str, k) = "-", DigitsFrom(str, AfterSign(str, k), 10, <<>>), e)

\* atoi(str) when errno is e: the values and the new errno it may give
atoi(str, e) == AtoiAt(str, SkipSpaces(str, 1), e)

\* the versions of parse_args, and whether struct pi has num_repetitions
Variants == {"part_014", "part_015", "util.c"}

HasRepetitions(v) == v # "util.c"

\* DEFAULT_NUM_STEPS: 1e9 with the options, 5000000000UL with the arguments
DEFAULT_NUM_STEPS(v) == IF v = "part_015" THEN <<0, 0, 0, 1>> ELSE <<0, 0, 0, 5>>

DEFAULT_NUM_THREADS == 16

NUM_REPETITIONS == 1

\* the characters of a decimal number given by its digits
NumberString(ds) == [k \in 1..Len(ds) |-> DecimalDigits[ds[k] + 1]]

\* the arguments tried: numbers, zero, text, nothing, a sign, trailing text,
\* the prefixes of base 16 and 8, a leading space, 2^32 and 2^64
ArgStrings ==
    { <<"4">>, <<"0">>, <<"a", "b", "c">>, <<>>, <<"-", "1">>,
      <<"1", "2", "a", "b", "c">>, <<"0", "x", "1", "0">>, <<"0", "1", "0">>,
      <<" ", "7">>, NumberString(<<4, 2, 9, 4, 9, 6, 7, 2, 9, 6>>),
      NumberString(<<1, 8, 4, 4, 6, 7, 4, 4, 0, 7, 3, 7, 0, 9, 5, 5, 1, 6, 1, 6>>) }

OptArgs ==
    { <<"4">>, <<"0">>, <<"a", "b", "c">>, <<"-", "1">>, <<"0", "x", "1", "0">>,
      NumberString(<<1, 8, 4, 4, 6, 7, 4, 4, 0, 7, 3, 7, 0, 9, 5, 5, 1, 6, 1, 6>>) }

\* 1.0 / num_steps: num_steps becomes a double, then the division
StepSize(steps) ==
    IF steps = <<>> THEN FlDiv(FlOne, FlZero, DoubleBits)
    ELSE FlDiv(FlOne, RoundNat(FALSE, steps, 0, DoubleBits), DoubleBits)

\* the structure initialised at the end of parse_args; the members left out
\* are zero
PiStruct(v, reps, steps, threads) ==
    IF HasRepetitions(v)
    THEN [num_repetitions |-> reps, num_steps |-> steps,
          requested_num_threads |-> threads, step_size |-> StepSize(steps), pi |-> FlZero]
    ELSE [num_steps |-> steps, requested_num_threads |-> threads,
          step_size |-> StepSize(steps), pi |-> FlZero]

\* the lines printed before returning
PiLines(v, reps, steps, threads) ==
    (IF HasRepetitions(v) THEN <<(<<"NUM_REPETITIONS", reps>>)>> ELSE <<>>)
        \o <<(<<"NUM_STEPS", steps>>), (<<"NUM_THREADS", threads>>)>>

ArgsReturn(v, reps, steps, threads, e) ==
    [status |-> "returned", errno |-> e, printed |-> PiLines(v, reps, steps, threads),
     args |-> PiStruct(v, reps, steps, threads)]

ArgsExit(line, e) == [status |-> "exited", errno |-> e, printed |-> <<line>>, args |-> Undef]

\* the test of num_steps after strtoul, which leaves errno = e, in part_014 and
\* util.c
StepsCheckRangeOnly(val, e) ==
    IF val = ULONG_MAX THEN (IF e = ERANGE THEN "out of range" ELSE "ok")
    ELSE "ok"

StepsCheck(val, e) ==
    IF val = ULONG_MAX THEN (IF e = ERANGE THEN "out of range" ELSE "ok")
    ELSE IF val = <<>> THEN "invalid"
    ELSE "ok"

\* the same test in part_015
StepsCheck15(val, e) ==
    IF val = ULONG_MAX /\ e = ERANGE THEN "out of range"
    ELSE IF val = <<>> THEN "invalid"
    ELSE "ok"

StepsExit(check, arg, e) ==
    IF check = "out of range" THEN ArgsExit(<<"number of steps out of range", arg>>, e)
    ELSE ArgsExit(<<"invalid number of steps", arg>>, e)

\* parse_args of part_014: repetitions, steps, threads
Threads14(av, reps, steps, t) ==
    IF t.val = 0 THEN ArgsExit(<<"invalid number of threads", av[3]>>, t.errno)
    ELSE ArgsReturn("part_014", reps, steps, t.val, t.errno)

Steps14(av, reps, s) ==
    IF StepsCheck(s.val, s.errno) # "ok"
    THEN {StepsExit(StepsCheck(s.val, s.errno), av[2], s.errno)}
    ELSE IF Len(av) < 3 THEN {ArgsReturn("part_014", reps, s.val, DEFAULT_NUM_THREADS, s.errno)}
    ELSE {Threads14(av, reps, s.val, t) : t \in atoi(av[3], s.errno)}

Reps14(av, r) ==
    IF r.val = 0 THEN {ArgsExit(<<"invalid number of repetitions", av[1]>>, r.errno)}
    ELSE IF Len(av) < 2
    THEN {ArgsReturn("part_014", r.val, DEFAULT_NUM_STEPS("part_014"), DEFAULT_NUM_THREADS, r.errno)}
    ELSE Steps14(av, r.val, strtoul(av[2], r.errno))

parse_args14(av, e) ==
    IF Len(av) < 1
    THEN {ArgsReturn("part_014", NUM_REPETITIONS, DEFAULT_NUM_STEPS("part_014"),
                   DEFAULT_NUM_THREADS, e)}
    ELSE UNION {Reps14(av, r) : r \in atoi(av[1], e)}

\* parse_args of util.c: steps, threads
ThreadsUtil(av, steps, t) ==
    IF t.val = 0 THEN ArgsExit(<<"invalid number of threads", av[2]>>, t.errno)
    ELSE ArgsReturn("util.c", 0, steps, t.val, t.errno)

StepsUtil(av, s) ==
    IF StepsCheck(s.val, s.errno) # "ok"
    THEN {StepsExit(StepsCheck(s.val, s.errno), av[1], s.errno)}
    ELSE IF Len(av) < 2 THEN {ArgsReturn("util.c", 0, s.val, DEFAULT_NUM_THREADS, s.errno)}
    ELSE {ThreadsUtil(av, s.val, t) : t \in atoi(av[2], s.errno)}

parse_argsUtil(av, e) ==
    IF Len(av) < 1
    THEN {ArgsReturn("util.c", 0, DEFAULT_NUM_STEPS("util.c"), DEFAULT_NUM_THREADS, e)}
    ELSE StepsUtil(av, strtoul(av[1], e))

\* parse_int of part_015: the values atoi may give, 0 ending the process
parse_int(arg, e) == {[exit |-> r.val = 0, val |-> r.val, errno |-> r.errno] : r \in atoi(arg, e)}

\* parse_args of part_015: opts are the options that getopt hands out in turn,
\* "?" standing for an option it does not know or one without its argument
RECURSIVE parse_args15(_, _, _, _, _, _)
Steps15(opts, k, reps, s, threads) ==
    IF StepsCheck15(s.val, s.errno) # "ok"
    THEN {StepsExit(StepsCheck15(s.val, s.errno), opts[k].optarg, s.errno)}
    ELSE parse_args15(opts, k + 1, reps, s.val, threads, s.errno)

Reps15(opts, k, r, steps, threads) ==
    IF r.exit THEN {ArgsExit(<<"invalid argument", opts[k].optarg, opts[k].opt>>, r.errno)}
    ELSE parse_args15(opts, k + 1, r.val, steps, threads, r.errno)

Threads15(opts, k, reps, steps, t) ==
    IF t.exit THEN {ArgsExit(<<"invalid argument", opts[k].optarg, opts[k].opt>>, t.errno)}
    ELSE parse_args15(opts, k + 1, reps, steps, t.val, t.errno)

parse_args15(opts, k, reps, steps, threads, e) ==
    IF k > Len(opts) THEN {ArgsReturn("part_015", reps, steps, threads, e)}
    ELSE IF opts[k].opt = "r"
    THEN UNION {Reps15(opts, k, r, steps, threads) : r \in parse_int(opts[k].optarg, e)}
    ELSE IF opts[k].opt = "t"
    THEN UNION {Threads15(opts, k, reps, steps, t) : t \in parse_int(opts[k].optarg, e)}
    ELSE IF opts[k].opt = "s"
    THEN Steps15(opts, k, reps, strtoul(opts[k].optarg, e), threads)
    ELSE {ArgsExit(<<"Usage">>, e)}

Options == [opt : {"r", "s", "t", "?"}, optarg : OptArgs]

\* the arguments that parse_args reads: argv[1] to argv[3] in part_014, argv[1]
\* and argv[2] in util.c
ArgsRead(v) == IF v = "part_014" THEN 3 ELSE 2

Argvs(v) ==
    IF v = "part_015" THEN UNION {[1..n -> Options] : n \in 0..MaxOptions}
    ELSE UNION {[1..n -> ArgStrings] : n \in 0..ArgsRead(v)}

\* main is entered with the arguments of the process
ArgsInit ==
    /\ apc = "main" /\ variant \in Variants /\ argv \in Argvs(variant)
    /\ errno = "0" /\ args = Undef /\ printed = <<>>
    /\ exit_status = "none" /\ computed = FALSE

\* parse_args returns to main or ends the process
Parsed(o) ==
    /\ apc' = o.status /\ errno' = o.errno /\ args' = o.args /\ printed' = o.printed
    /\ exit_status' = (IF o.status = "exited" THEN EXIT_FAILURE ELSE "none")
    /\ UNCHANGED <<variant, argv, computed, outsideArgs>>

ParseArgs14 ==
    /\ apc = "main" /\ variant = "part_014"
    /\ \E o \in parse_args14(argv, errno) : Parsed(o)

ParseArgs15 ==
    /\ apc = "main" /\ variant = "part_015"
    /\ \E o \in parse_args15(argv, 1, NUM_REPETITIONS, DEFAULT_NUM_STEPS("part_015"),
                             DEFAULT_NUM_THREADS, errno) : Parsed(o)

ParseArgsUtil ==
    /\ apc = "main" /\ variant = "util.c"
    /\ \E o \in parse_argsUtil(argv, errno) : Parsed(o)

\* main goes on to time compute_pi with the structure returned
Timeit ==
    /\ apc = "returned"
    /\ apc' = "timed" /\ computed' = TRUE
    /\ UNCHANGED <<variant, argv, errno, args, printed, exit_status, outsideArgs>>

NextArgs == ParseArgs14 \/ ParseArgs15 \/ ParseArgsUtil \/ Timeit

InitArgs == JavaInit /\ VecIdle /\ SubnetIdle /\ ArgsInit /\ OmpIdle

SpecArgs == InitArgs /\ [][NextArgs]_vars

\* ---------------------------------------------------------------------------
\* The pi programs of openmp: the serial loop and the parallel regions
\* ---------------------------------------------------------------------------

\* the largest number of steps and of threads tried; the programs fix
\* NUM_STEPS at 3000000000 or 5000000000 and NUM_THREADS at 16, 256 or 1000, or
\* take them from the command line. The indices stay far below 2^64, where a
\* size_t loop variable would wrap
MaxNumSteps == 4

MaxThreads == 3

Programs ==
    {"serial_pi.c", "spmd.c", "spmd_padded.c", "false_sharing_par_pi.c", "part_006",
     "spmd_synced.c", "synced_par_pi.c"}

\* the programs whose threads add into a local sum and then into the static pi
Synced(p) == p \in {"spmd_synced.c", "synced_par_pi.c"}

\* the programs whose threads take a block of indices each
Blocks(p) == p = "part_006"

\* timeit(compute_pi, &args, 2) in the programs that have compute_pi
Repeat(p) == IF p \in {"spmd.c", "spmd_padded.c", "spmd_synced.c"} THEN 2 ELSE 1

\* the sizes of the team that the runtime may create: no more threads than
\* omp_set_num_threads asked for; spmd_synced.c does not call it
TeamSizes(p, requested) == IF p = "spmd_synced.c" THEN 1..MaxThreads ELSE 1..requested

\* the threads of a team of t
Team(t) == 0..(t - 1)

\* the first index of thread id in a team of t
FirstIndex(p, n, t, id) == IF Blocks(p) THEN (n \div t) * id ELSE id

\* the end of the loop of thread id in a team of t, requested being NUM_THREADS
BlockEnd(n, t, id, requested) ==
    IF id = requested - 1 /\ (n \div t) * (id + 1) < n THEN n ELSE (n \div t) * (id + 1)

LoopEnd(p, n, t, id, requested) == IF Blocks(p) THEN BlockEnd(n, t, id, requested) ELSE n

\* what the loop adds to its variable
StrideOne(p, t) == 1

Stride(p, t) == IF Blocks(p) THEN 1 ELSE t

\* compute_pi of spmd_synced.c sets the static pi to 0
KeepPi(p, old) == old

ResetPi(p, old) == IF p = "spmd_synced.c" THEN <<>> ELSE old

\* the sums s[0] to s[n - 1] in this order
SumsUpTo(s, n) == [k \in 1..n |-> s[k - 1]]

\* what main adds up after the parallel region
TotalSum(p) ==
    IF Synced(p) THEN static_pi
    ELSE IF Blocks(p) THEN SumsUpTo(sums, NUM_THREADS)
    ELSE SumsUpTo(sums, actual_num_threads)

\* main has been entered
OmpInit ==
    /\ opc = "main" /\ program \in Programs
    /\ NUM_STEPS \in 0..MaxNumSteps /\ NUM_THREADS \in 1..MaxThreads
    /\ repetition = 0 /\ num_threads = 0 /\ tpc = <<>> /\ ti = <<>>
    /\ end_num_steps = <<>> /\ sums = <<>> /\ critical = <<>>
    /\ static_pi = <<>> /\ total_sum = Undef /\ actual_num_threads = Undef

\* serial_pi.c: sum = 0 and the loop is entered
SerialStart ==
    /\ opc = "main" /\ program = "serial_pi.c"
    /\ opc' = "loop"
    /\ ti' = [k \in {0} |-> 0] /\ sums' = [k \in {0} |-> <<>>]
    /\ UNCHANGED <<program, NUM_STEPS, NUM_THREADS, repetition, num_threads, tpc,
                   end_num_steps, critical, static_pi, total_sum, actual_num_threads,
                   outsideOmp>>

\* one iteration of the serial loop
SerialIteration ==
    /\ opc = "loop" /\ ti[0] < NUM_STEPS
    /\ sums' = [sums EXCEPT ![0] = Append(@, ti[0])]
    /\ ti' = [ti EXCEPT ![0] = @ + 1]
    /\ UNCHANGED <<opc, program, NUM_STEPS, NUM_THREADS, repetition, num_threads, tpc,
                   end_num_steps, critical, static_pi, total_sum, actual_num_threads,
                   outsideOmp>>

\* the serial loop ends and pi = step * sum
SerialEnd ==
    /\ opc = "loop" /\ ~(ti[0] < NUM_STEPS)
    /\ opc' = "done"
    /\ total_sum' = <<sums[0]>>
    /\ UNCHANGED <<program, NUM_STEPS, NUM_THREADS, repetition, num_threads, tpc, ti,
                   end_num_steps, sums, critical, static_pi, actual_num_threads,
                   outsideOmp>>

\* main, or compute_pi called by timeit, up to the parallel region: the sums
\* are cleared and the runtime creates a team
ParallelRegion ==
    /\ opc = "main" /\ program # "serial_pi.c"
    /\ opc' = "parallel"
    /\ \E t \in TeamSizes(program, NUM_THREADS) :
           /\ num_threads' = t
           /\ tpc' = [id \in Team(t) |-> "start"]
           /\ ti' = [id \in Team(t) |-> 0]
           /\ end_num_steps' = [id \in Team(t) |-> 0]
           /\ sums' = [id \in Team(IF Synced(program) THEN t ELSE NUM_THREADS) |-> <<>>]
    /\ static_pi' = ResetPi(program, static_pi)
    /\ actual_num_threads' = Undef
    /\ UNCHANGED <<program, NUM_STEPS, NUM_THREADS, repetition, critical, total_sum,
                   outsideOmp>>

\* thread_body up to its loop: thread 0 stores the size of the team in the
\* programs that have actual_num_threads
ThreadStart ==
    \E id \in Team(num_threads) :
        /\ opc = "parallel" /\ tpc[id] = "start"
        /\ tpc' = [tpc EXCEPT ![id] = "loop"]
        /\ ti' = [ti EXCEPT ![id] = FirstIndex(program, NUM_STEPS, num_threads, id)]
        /\ end_num_steps' =
               [end_num_steps EXCEPT ![id] = LoopEnd(program, NUM_STEPS, num_threads, id, NUM_THREADS)]
        /\ actual_num_threads' =
               (IF id = 0 /\ ~Synced(program) /\ ~Blocks(program) THEN num_threads
                ELSE actual_num_threads)
        /\ UNCHANGED <<opc, program, NUM_STEPS, NUM_THREADS, repetition, num_threads, sums,
                       critical, static_pi, total_sum, outsideOmp>>

\* one iteration of the loop of a thread
ThreadIteration ==
    \E id \in Team(num_threads) :
        /\ opc = "parallel" /\ tpc[id] = "loop" /\ ti[id] < end_num_steps[id]
        /\ sums' = [sums EXCEPT ![id] = Append(@, ti[id])]
        /\ ti' = [ti EXCEPT ![id] = @ + Stride(program, num_threads)]
        /\ UNCHANGED <<opc, program, NUM_STEPS, NUM_THREADS, repetition, num_threads, tpc,
                       end_num_steps, critical, static_pi, total_sum, actual_num_threads,
                       outsideOmp>>

\* the loop of a thread ends
ThreadLoopEnd ==
    \E id \in Team(num_threads) :
        /\ opc = "parallel" /\ tpc[id] = "loop" /\ ~(ti[id] < end_num_steps[id])
        /\ tpc' = [tpc EXCEPT ![id] = IF Synced(program) THEN "critical" ELSE "end"]
        /\ UNCHANGED <<opc, program, NUM_STEPS, NUM_THREADS, repetition, num_threads, ti,
                       end_num_steps, sums, critical, static_pi, total_sum,
                       actual_num_threads, outsideOmp>>

\* a thread enters the critical section when no thread is in it
CriticalEnter ==
    \E id \in Team(num_threads) :
        /\ opc = "parallel" /\ tpc[id] = "critical" /\ critical = <<>>
        /\ critical' = <<id>>
        /\ tpc' = [tpc EXCEPT ![id] = "update"]
        /\ UNCHANGED <<opc, program, NUM_STEPS, NUM_THREADS, repetition, num_threads, ti,
                       end_num_steps, sums, static_pi, total_sum, actual_num_threads,
                       outsideOmp>>

\* pi += step * sum, and the thread leaves the critical section
CriticalUpdate ==
    \E id \in Team(num_threads) :
        /\ opc = "parallel" /\ tpc[id] = "update"
        /\ static_pi' = Append(static_pi, [thread |-> id, sum |-> sums[id]])
        /\ critical' = <<>>
        /\ tpc' = [tpc EXCEPT ![id] = "end"]
        /\ UNCHANGED <<opc, program, NUM_STEPS, NUM_THREADS, repetition, num_threads, ti,
                       end_num_steps, sums, total_sum, actual_num_threads, outsideOmp>>

\* the threads have joined: main adds the sums up, and timeit calls
\* compute_pi again or main ends
Joined ==
    /\ opc = "parallel" /\ \A id \in Team(num_threads) : tpc[id] = "end"
    /\ total_sum' = TotalSum(program)
    /\ repetition' = repetition + 1
    /\ opc' = (IF repetition + 1 < Repeat(program) THEN "main" ELSE "done")
    /\ UNCHANGED <<program, NUM_STEPS, NUM_THREADS, num_threads, tpc, ti, end_num_steps,
                   sums, critical, static_pi, actual_num_threads, outsideOmp>>

NextOmp ==
    \/ SerialStart
    \/ SerialIteration
    \/ SerialEnd
    \/ ParallelRegion
    \/ ThreadStart
    \/ ThreadIteration
    \/ ThreadLoopEnd
    \/ CriticalEnter
    \/ CriticalUpdate
    \/ Joined

InitOmp == JavaInit /\ VecIdle /\ SubnetIdle /\ ArgsIdle /\ OmpInit

SpecOmp == InitOmp /\ [][NextOmp]_vars

(***************************************************************************)
(* What the properties below speak of: the 32-character bit strings, their *)
(* fields, and the IEEE 754 single-precision encoding of a decimal value.  *)
(***************************************************************************)
IsBitString(str) == Len(str) = 32 /\ \A k \in 1..Len(str) : str[k] \in Bit

ExponentField(str) == DigitsValue(Sub(str, 2, 9), 2, 8)

IsNormalized(str) == IsBitString(str) /\ ExponentField(str) \in 1..254

\* the significand 1.b1...b23 as the integer 2^23 + b1...b23
Significand(str) == 2 ^ 23 + DigitsValue(Sub(str, 10, 32), 2, 23)

Converted == pc = "done" /\ fn = "exactDecimal"

Estimated == pc = "done" /\ fn \in Estimators

\* mag * 10^(-scale) = m * 2^e2
SameRational(mag, scale, m, e2) ==
    MulN(Shift10(mag, Max(0, -scale)), PowN(<<2>>, Max(0, -e2)))
        = MulN(Shift10(m, Max(0, scale)), PowN(<<2>>, Max(0, e2)))

\* a natural number below 10^9 as an integer
ToInt(a) == Dig(a, 1) + 1000 * Dig(a, 2) + 1000000 * Dig(a, 3)

\* the decimal value v as the nearest float, ties to even
NearestFloat(v) ==
    RoundBin(v.neg, Shift10(v.mag, Max(0, -v.scale)), Shift10(<<1>>, Max(0, v.scale)),
             0, FloatBits)

\* the 32 bits of the normalized float f, or no string when f is not normalized
BitsOf(f) ==
    LET field == f.exp + 23 + 127
    IN  IF f.mant = <<>> \/ field \notin 1..254 THEN <<>>
        ELSE <<IF f.neg THEN "1" ELSE "0">> \o ToBits(field, 8)
                 \o ToBits(ToInt(f.mant) - 2 ^ 23, 23)

Encode(v) == IF v.mag = <<>> THEN <<>> ELSE BitsOf(NearestFloat(v))

OneBits == <<"0">> \o ToBits(127, 8) \o Rep("0", 23)

MinusTwoBits == <<"1">> \o ToBits(128, 8) \o Rep("0", 23)

(***************************************************************************)
(* The properties.                                                         *)
(***************************************************************************)

\* C1: for a bit string that encodes a normalized value, exactDecimal returns
\* a value whose sign is given by bit 0 of the string (the first character):
\* positive for '0', negative for '1', whatever the mantissa bits.
C1_SignFromBit0 ==
    (Converted /\ IsNormalized(singleFloatingPointBinary)) =>
        /\ ret.kind = "value"
        /\ ret.val.neg <=> (singleFloatingPointBinary[1] = "1")

\* C2: for a bit string with exponent field in 1..254, the magnitude of the
\* value returned is exactly (1 + sum of bit_i * 2^-i) * 2^(field - 127),
\* that is Significand * 2^(field - 150): no digit is lost to rounding.
C2_ExactMagnitude ==
    (Converted /\ IsNormalized(singleFloatingPointBinary)) =>
        /\ ret.kind = "value"
        /\ SameRational(ret.val.mag, ret.val.scale,
                        FromInt(Significand(singleFloatingPointBinary)),
                        ExponentField(singleFloatingPointBinary) - 150)

\* C3: the bits of 1.0f are converted to a value equal to 1 and the bits of
\* -2.0f to a value equal to -2.
C3_KnownValues ==
    /\ (Converted /\ singleFloatingPointBinary = OneBits) =>
           ret.kind = "value" /\ BdSame(ret.val, BdValueOf(1))
    /\ (Converted /\ singleFloatingPointBinary = MinusTwoBits) =>
           ret.kind = "value" /\ BdSame(ret.val, BdValueOf(-2))

\* C4: for a bit string that encodes a normalized value, the value returned,
\* encoded again as the nearest single-precision number (ties to even), gives
\* the 32 bits of the string.
C4_RoundTrip ==
    (Converted /\ IsNormalized(singleFloatingPointBinary)) =>
        /\ ret.kind = "value"
        /\ Encode(ret.val) = singleFloatingPointBinary

\* C5: exactDecimal returns a value only for a string of exactly 32
\* characters '0' or '1'; for any other string it fails, and the failure comes
\* before any part of the value is computed (no iteration of the loop over the
\* fraction has run).
C5_OnlyBitStrings ==
    Converted =>
        /\ ret.kind = "value" => IsBitString(singleFloatingPointBinary)
        /\ ~IsBitString(singleFloatingPointBinary) => ret.kind = "exception" /\ i = 0

\* C6: a bit string whose exponent field is all zeros or all ones is rejected
\* with an error, never converted as if it were normalized.
C6_SpecialsRejected ==
    (Converted /\ IsBitString(singleFloatingPointBinary)
               /\ ExponentField(singleFloatingPointBinary) \in {0, 255}) =>
        ret.kind = "exception"

\* C7: each estimator called with a step count of zero or less fails with an
\* error before any arithmetic (the step size is never computed); no number is
\* returned.
C7_StepCountChecked ==
    (Estimated /\ numSteps <= 0) => ret.kind = "exception" /\ stepSize = Undef

\* C8: arbitrary_precision_pi called with a precision of zero or less fails
\* with an error before the step size is computed or an iteration runs;
\* precision 0 is not unlimited precision.
C8_PrecisionChecked ==
    (pc = "done" /\ fn = "arbitrary_precision_pi" /\ precision <= 0) =>
        ret.kind = "exception" /\ stepSize = Undef /\ i = 0

\* the running sum after k iterations: the terms 0..k-1 added in this order
RECURSIVE SumOfTerms(_, _, _, _)
SumOfTerms(f, k, step, mc) ==
    IF k = 0 THEN SumZero(f)
    ELSE AddTerm(f, SumOfTerms(f, k - 1, step, mc), TermOf(f, k - 1, step, mc).val)

\* an estimator called with a positive step count (and, for the decimal one,
\* a positive precision)
Estimating ==
    /\ fn \in Estimators /\ numSteps > 0
    /\ fn = "arbitrary_precision_pi" => precision > 0

\* C9: for a step count n > 0 each estimator sets the step size to 1/n, runs
\* exactly n iterations with i = 0, 1, ..., n-1 in this order, adds in
\* iteration i the term 4/(1 + ((i + 0.5) * stepSize)^2) to the sum, so that
\* after k iterations the sum is that of the terms 0..k-1 added in this order,
\* then returns sum * stepSize; neither the step size nor a term fails.
C9_MidpointRule ==
    Estimating =>
        /\ ret.kind # "exception"
        /\ pc = "pi_step" => StepSizeOf(fn, numSteps, PiContext(precision)).exc = "none"
        /\ pc \in {"pi_loop", "done"} =>
              /\ stepSize = StepSizeOf(fn, numSteps, PiContext(precision)).val
              /\ i \in 0..numSteps
              /\ sum = SumOfTerms(fn, i, stepSize, PiContext(precision))
        /\ (pc = "pi_loop" /\ i < numSteps) =>
              TermOf(fn, i, stepSize, PiContext(precision)).exc = "none"
        /\ pc = "done" =>
              /\ i = numSteps
              /\ ret = Value(ResultOf(fn, sum, stepSize))

C9_Witness ==
    /\ pc = "done" /\ fn = "arbitrary_precision_pi" /\ ret.kind = "value"
    /\ numSteps = MaxSteps /\ precision = MaxPrecision /\ i = numSteps

\* C10: a call with the same arguments as a call completed earlier has the
\* same outcome, whatever calls were made between the two.
C10_Deterministic ==
    (pc = "done" /\ SameCall(first, fn, singleFloatingPointBinary, numSteps, precision)) =>
        ret = first.ret

C10_Witness ==
    /\ pc = "done" /\ SameCall(first, fn, singleFloatingPointBinary, numSteps, precision)
    /\ first.other /\ ret.kind = "value"

\* C11: a call of the converter, whether it returns a value or fails, writes
\* nothing to standard output and changes no state outside the call (the static
\* bias keeps its value).
C11_NoSideEffects ==
    fn \in {"binaryToFloat", "exactDecimal"} =>
        stdout = <<>> /\ SINGLE_FP_EXPONENT_BIAS = 127

\* C12: in arbitrary_precision_pi the step size and the running sum of the loop
\* are values rounded to `precision' significant digits with round-half-up (the
\* sum after every iteration, the accumulation included), and the converter's
\* power of two is the one rounded with round-half-to-even at 50 digits.
C12_RoundingModes ==
    /\ (fn = "arbitrary_precision_pi" /\ pc = "pi_loop" /\ precision > 0) =>
           /\ BdSame(stepSize, BdRound(stepSize, MathContext(precision, "HALF_UP")))
           /\ BdSame(sum, BdRound(sum, MathContext(precision, "HALF_UP")))
    /\ (fn = "exactDecimal" /\ pc = "ed_return") =>
           BdSame(result,
                  BdMultiply(mantissa,
                             BdPowMc(BdValueOf(2), exponent, MathContext(50, "HALF_EVEN")).val))

\* C14: when run() is over, in AVX2 mode as in scalar mode, result_position is
\* the number of integers that both files hold and every element below it is
\* the 32-bit sum of the two files' integers at its place, so the two modes
\* give the same elements, also for a number that is not a multiple of 8.
C14_SameElements ==
    vpc = "done" =>
        /\ result_position = Min(Len(file1), Len(file2))
        /\ \A k \in 1..result_position : result_array[k] = Add32(file1[k], file2[k])

\* AVX2 mode has added 9 integers, the longer file holding more than a buffer,
\* one of the sums passing the end of the 32-bit range
C14_Witness ==
    /\ vpc = "done" /\ run_mode = "AVX2" /\ result_position = 9
    /\ Len(file2) > BUF_SIZE
    /\ \E k \in 1..9 : file1[k] = INT32_MAX /\ file2[k] = INT32_MAX /\ result_array[k] = -2

\* What the claims about the subnet calculator name, computed on the halves:
\* an address with its h low bits cleared or set, and 2^h as a 32-bit value
\* (for h = 32 a high half that no uint32_t has).
Returns(f) == spc = "done" /\ sfn = f

LowCleared(a, h) ==
    <<a[1] - (a[1] % 2^Max(h - 16, 0)), IF h >= 16 THEN 0 ELSE a[2] - (a[2] % 2^h)>>

LowSet(a, h) ==
    <<a[1] - (a[1] % 2^Max(h - 16, 0)) + 2^Max(h - 16, 0) - 1,
      IF h >= 16 THEN Half - 1 ELSE a[2] - (a[2] % 2^h) + 2^h - 1>>

PowerOfTwo32(h) == IF h >= 16 THEN <<2^(h - 16), 0>> ELSE <<0, 2^h>>

\* the smallest b with 2^b >= x, for 1 <= x
SmallestBits(x) == CHOOSE b \in 0..30 : 2^b >= x /\ \A c \in 0..(b - 1) : 2^c < x

\* C15: for every address and every prefix length p in 0..32 subnet_calculator
\* returns the network address (host bits cleared), the broadcast address (host
\* bits set), first = network + 1, last = broadcast - 1, next = broadcast + 1,
\* the mask of p one-bits, 2^(32-p) addresses and prefixlen = p.
C15_SubnetParameters ==
    Returns("subnet_calculator") =>
        /\ sret.network_address = LowCleared(sargs[1], 32 - sargs[2])
        /\ sret.broadcast_address = LowSet(sargs[1], 32 - sargs[2])
        /\ sret.first_address = U32Add(sret.network_address, U32One)
        /\ sret.last_address = U32Sub(sret.broadcast_address, U32One)
        /\ sret.next_network = U32Add(sret.broadcast_address, U32One)
        /\ sret.subnet_mask = LowCleared(U32Ones, 32 - sargs[2])
        /\ sret.num_ip_addresses = PowerOfTwo32(32 - sargs[2])
        /\ sret.prefixlen = sargs[2]

\* C16: calculate_subnet_size(n, x) is, for x >= 1, the smallest p with
\* 2^(p-n) >= x; calculate_subnet_size(18, 128) = 25.
C16_SubnetSize ==
    Returns("calculate_subnet_size") =>
        /\ sret = sargs[1] + SmallestBits(sargs[2])
        /\ (sargs = <<18, 128>> => sret = 25)

\* C17: calculate_num_subnets(n, a) is, for a >= 1, 2^(32 - n - b) with b the
\* smallest number of bits with 2^b >= a (wherever that power is a whole
\* number an int holds); calculate_num_subnets(21, 50) = 32.
C17_NumSubnets ==
    Returns("calculate_num_subnets") =>
        /\ (32 - sargs[1] - SmallestBits(sargs[2])) \in 0..30 =>
              sret = 2^(32 - sargs[1] - SmallestBits(sargs[2]))
        /\ (sargs = <<21, 50>> => sret = 32)

\* a subnet of prefix length p has room for h hosts beside its network and
\* broadcast addresses (the counts here are below 2^30, so p <= 1 has room)
HasRoom(p, h) == p <= 1 \/ 2^(32 - p) - 2 >= h

\* C18: calculate_subnet_prefixlen(h) is, for h >= 1, the largest p such that
\* 2^(32-p) - 2 >= h; calculate_subnet_prefixlen(10) = 28.
C18_SubnetPrefixlen ==
    Returns("calculate_subnet_prefixlen") =>
        /\ HasRoom(sret, sargs[1])
        /\ \A p \in (sret + 1)..32 : ~HasRoom(p, sargs[1])
        /\ (sargs = <<10>> => sret = 28)

\* the smallest subnet for 10 hosts, and one for a count that fills its subnet
C18_Witness ==
    \/ Returns("calculate_subnet_prefixlen") /\ sargs = <<10>> /\ sret = 28
    \/ Returns("calculate_subnet_prefixlen") /\ sargs = <<62>> /\ sret = 26

\* C19: after vlsm returns, the array is ordered by prefixlen (non-decreasing),
\* its prefix lengths are, as a multiset, those calculate_subnet_prefixlen gives
\* for the requested host counts, and every element's num_ip_addresses is
\* 2^(32 - prefixlen), at least the host count it was sized for plus 2.
C19_Vlsm ==
    Returns("vlsm") =>
        /\ Len(subnets) = Len(requests)
        /\ \A k \in 1..(Len(subnets) - 1) : subnets[k].prefixlen <= subnets[k + 1].prefixlen
        /\ \E f \in Orders(Len(requests)) :
              \A k \in 1..Len(subnets) :
                 /\ subnets[k].prefixlen = calculate_subnet_prefixlen(requests[f[k]])
                 /\ subnets[k].num_ip_addresses = PowerOfTwo32(32 - subnets[k].prefixlen)
                 /\ HostsOf(subnets[k]) >= requests[f[k]] + 2

\* the first test case: 25, 50 and 10 hosts in 9.9.8.0/24 give 9.9.8.0/26,
\* 9.9.8.64/27 and 9.9.8.96/28
C19_Witness ==
    /\ Returns("vlsm") /\ requests = <<25, 50, 10>> /\ original_subnet.prefixlen = 24
    /\ subnets[1].prefixlen = 26 /\ subnets[1].network_address = <<2313, 2048>>
    /\ subnets[2].prefixlen = 27 /\ subnets[2].network_address = <<2313, 2112>>
    /\ subnets[3].prefixlen = 28 /\ subnets[3].network_address = <<2313, 2144>>

\* the arguments that are 0 or are not numbers
ZeroOrNoNumber == {<<"0">>, <<"a", "b", "c">>, <<>>}

\* an argument that parse_args converts is 0 or is not a number
BadArgument ==
    IF variant = "part_015"
    THEN \E k \in 1..Len(argv) : argv[k].opt # "?" /\ argv[k].optarg \in ZeroOrNoNumber
    ELSE \E k \in 1..Len(argv) : argv[k] \in ZeroOrNoNumber

\* f * n is 1 to within the rounding of the conversion of n and of the division
NearReciprocal(f, n) ==
    /\ f.cls = "fin" /\ ~f.neg /\ f.exp < 0
    /\ LET one == PowN(<<2>>, -f.exp)
           prod == MulN(f.mant, n)
           diff == IF CmpN(prod, one) >= 0 THEN SubN(prod, one) ELSE SubN(one, prod)
       IN  CmpN(MulN(diff, PowN(<<2>>, 51)), one) <= 0

\* C20: parse_args never returns a configuration with num_steps = 0,
\* requested_num_threads = 0 or num_repetitions = 0; when an argument it
\* converts is 0 or is not a number the process exits with EXIT_FAILURE, nothing
\* is returned and compute_pi is never run; a returned structure has step_size
\* = 1 / num_steps to within the rounding of a double.
C20_ParseArgs ==
    /\ apc \in {"returned", "timed"} =>
           /\ args.num_steps # <<>>
           /\ args.requested_num_threads # 0
           /\ HasRepetitions(variant) => args.num_repetitions # 0
           /\ NearReciprocal(args.step_size, args.num_steps)
    /\ (BadArgument /\ apc # "main") => apc = "exited"
    /\ apc = "exited" => (exit_status = EXIT_FAILURE /\ args = Undef /\ ~computed)
    /\ computed => apc = "timed"

\* the steps given are 0 after a valid number of repetitions and the process
\* has exited
C20_Witness ==
    /\ variant = "part_014" /\ argv = <<(<<"4">>), (<<"0">>), (<<"4">>)>>
    /\ apc = "exited" /\ printed = <<(<<"invalid number of steps", <<"0">> >>)>>

\* the places of the sums: a sum and a position in it
Places == UNION {{<<id, q>> : q \in 1..Len(sums[id])} : id \in DOMAIN sums}

\* how many times the term of index k has been added to a sum
Occurrences(k) == Cardinality({p \in Places : sums[p[1]][p[2]] = k})

\* every loop of the program has ended
LoopsEnded ==
    \/ opc = "done"
    \/ opc = "main" /\ repetition > 0
    \/ opc = "parallel" /\ \A id \in Team(num_threads) : tpc[id] \in {"critical", "update", "end"}

\* the programs whose threads take the indices id, id + T, id + 2T, ...
RoundRobin(p) == p \in Programs \ {"serial_pi.c", "part_006"}

\* C21: in the round-robin programs, for every size T of the team and every
\* number of steps, no index is taken by two threads or twice by one, only
\* indices of [0, NUM_STEPS) are taken, and once the loops have ended every
\* index of [0, NUM_STEPS) has been taken exactly once, as in the serial loop,
\* which takes 0, 1, ..., NUM_STEPS - 1; main then adds up the sums of all the
\* threads of the team.
C21_RoundRobin ==
    /\ RoundRobin(program) \/ program = "serial_pi.c" =>
           /\ \A p \in Places : sums[p[1]][p[2]] \in 0..(NUM_STEPS - 1)
           /\ \A k \in 0..(NUM_STEPS - 1) : Occurrences(k) <= 1
           /\ LoopsEnded => \A k \in 0..(NUM_STEPS - 1) : Occurrences(k) = 1
    /\ program = "serial_pi.c" /\ opc = "done" =>
           total_sum = <<[k \in 1..NUM_STEPS |-> k - 1]>>
    /\ RoundRobin(program) /\ ~Synced(program) /\ opc \in {"main", "done"} /\ repetition > 0 =>
           /\ Len(total_sum) = num_threads
           /\ \A id \in Team(num_threads) : total_sum[id + 1] = sums[id]
           /\ \A id \in DOMAIN sums : id >= num_threads => sums[id] = <<>>

\* two threads of the three asked for have shared three steps
C21_Witness ==
    /\ program = "spmd_padded.c" /\ NUM_STEPS = 3 /\ NUM_THREADS = 3 /\ num_threads = 2
    /\ opc = "done" /\ total_sum = <<(<<0, 2>>), (<<1>>)>>

\* C22: in the program whose threads take the blocks [NUM_STEPS / T * id,
\* NUM_STEPS / T * (id + 1)), the last thread taking the extra work, for every
\* size T of the team that the runtime creates, also one smaller than
\* NUM_THREADS and one that does not divide NUM_STEPS, no index is taken twice
\* and once the loops have ended every index of [0, NUM_STEPS) has been taken
\* exactly once.
C22_BlockSharding ==
    Blocks(program) =>
        /\ \A p \in Places : sums[p[1]][p[2]] \in 0..(NUM_STEPS - 1)
        /\ \A k \in 0..(NUM_STEPS - 1) : Occurrences(k) <= 1
        /\ LoopsEnded => \A k \in 0..(NUM_STEPS - 1) : Occurrences(k) = 1

\* the additions to the static pi made by thread id
Contributions(id) == {q \in 1..Len(static_pi) : static_pi[q].thread = id}

\* C23: in the programs with the critical section, at every moment of an
\* invocation the static pi holds one addition of step * sum for each thread
\* that has left the critical section, made with the local sum of that thread,
\* and nothing else: no addition is lost or made twice under any interleaving,
\* at most one thread is in the critical section, and nothing added by an
\* earlier invocation of compute_pi remains; when compute_pi returns, pi holds
\* exactly one addition for each thread of the team, and that is the value
\* handed back.
C23_CriticalSection ==
    Synced(program) /\ (opc # "main" \/ repetition > 0) =>
        /\ \A id \in Team(num_threads) :
               /\ Cardinality(Contributions(id)) = (IF tpc[id] = "end" THEN 1 ELSE 0)
               /\ \A q \in Contributions(id) : static_pi[q].sum = sums[id]
        /\ \A q \in 1..Len(static_pi) : static_pi[q].thread \in Team(num_threads)
        /\ Cardinality({id \in Team(num_threads) : tpc[id] = "update"}) <= 1
        /\ critical = <<>> <=> \A id \in Team(num_threads) : tpc[id] # "update"
        /\ opc \in {"main", "done"} =>
               /\ Len(static_pi) = num_threads
               /\ total_sum = static_pi

\* the second invocation by timeit has returned; thread 1 was the first to add
C23_Witness ==
    /\ program = "spmd_synced.c" /\ opc = "done" /\ repetition = 2
    /\ NUM_STEPS = 3 /\ num_threads = 2
    /\ total_sum = <<[thread |-> 1, sum |-> <<1>>], [thread |-> 0, sum |-> <<0, 2>>]>>

\* the exponent e with 10^(p - 1) <= (n / d) * 10^e < 10^p, for 1/10 <= n / d < 10
DigitsExponent(n, d, p) ==
    CHOOSE e \in 0..(p + 1) :
        /\ CmpN(MulN(d, PowN(<<10>>, p - 1)), MulN(n, PowN(<<10>>, e))) <= 0
        /\ CmpN(MulN(n, PowN(<<10>>, e)), MulN(d, PowN(<<10>>, p))) < 0

\* floor(n * 10^e / d + 1/2) / 10^e
HalfUpAt(n, d, e) ==
    BD(FALSE, DivMod(AddN(MulN(MulSmall(n, 2), PowN(<<10>>, e)), d), MulSmall(d, 2)).q, e)

\* n / d rounded half up to p significant digits
HalfUp(n, d, p) == HalfUpAt(n, d, DigitsExponent(n, d, p))

\* the sum of two decimal numbers that are not negative
ExactPlus(x, y) ==
    LET s == Max(x.scale, y.scale)
    IN  BD(FALSE, AddN(Shift10(x.mag, s - x.scale), Shift10(y.mag, s - y.scale)), s)

\* 4 / (1 + x^2) rounded half up to p digits, for x = (k + 0.5) * st exactly:
\* with st = m / 10^c, x = (2k + 1) m / (2 * 10^c) and
\* 4 / (1 + x^2) = 16 * 10^(2c) / (4 * 10^(2c) + (2k + 1)^2 m^2)
RoundedTerm(k, st, p) ==
    LET pow == PowN(<<10>>, 2 * st.scale)
        odd == MulSmall(st.mag, 2 * k + 1)
    IN  HalfUp(MulSmall(pow, 16), AddN(MulSmall(pow, 4), MulN(odd, odd)), p)

\* q_0 + ... + q_(k - 1), added exactly
RECURSIVE TermsSum(_, _, _)
TermsSum(k, st, p) ==
    IF k = 0 THEN BdZero ELSE ExactPlus(TermsSum(k - 1, st, p), RoundedTerm(k - 1, st, p))

\* x = y * z exactly
IsProduct(x, y, z) ==
    LET s == Max(x.scale, y.scale + z.scale)
    IN  /\ x.neg = (y.neg # z.neg /\ x.mag # <<>>)
        /\ Shift10(x.mag, s - x.scale) = Shift10(MulN(y.mag, z.mag), s - y.scale - z.scale)

\* C24: in arbitrary_precision_pi with numSteps >= 1 and precision >= 1, the
\* step size is 1 / numSteps rounded half up to 'precision' significant digits,
\* the sum after k iterations is exactly q_0 + ... + q_(k - 1), q_i being
\* 4 / (1 + x_i^2) rounded half up to 'precision' significant digits for the
\* exact x_i = (i + 0.5) * stepSize, and the value returned is exactly
\* stepSize * (q_0 + ... + q_(numSteps - 1)), whatever its number of digits.
C24_OnlyDivisionsRounded ==
    fn = "arbitrary_precision_pi" /\ numSteps >= 1 /\ precision >= 1
        /\ (pc = "pi_loop" \/ (pc = "done" /\ ret.kind = "value")) =>
            /\ BdSame(stepSize, HalfUp(<<1>>, FromInt(numSteps), precision))
            /\ BdSame(sum, TermsSum(i, stepSize, precision))
            /\ pc = "done" =>
                   /\ i = numSteps
                   /\ IsProduct(ret.val, stepSize, sum)

\* a call with precision 2 has returned a value of more than 2 digits:
\* 0.25 * (3.9 + 3.5 + 2.9 + 2.3) = 3.150
C24_Witness ==
    /\ fn = "arbitrary_precision_pi" /\ numSteps = 4 /\ precision = 2
    /\ pc = "done" /\ ret.kind = "value"
    /\ BdPrecision(StripZerosToMatchScale(ret.val, 0)) > precision

====
